---- MODULE Spec2Model ----
(***************************************************************************)
(* Cache-aware flight aggregation pipeline: utils/mongoDB.py (cache store) *)
(* and utils/get_flights.py (retry wrapper, search fetch, enrichment).     *)
(*                                                                         *)
(* Python values are modelled as tagged records so that values of          *)
(* different Python types can be compared:                                 *)
(*   None   [kind |-> "none"]                                              *)
(*   str    [kind |-> "str",  s |-> sequence of one-character strings]     *)
(*   dict   [kind |-> "dict", d |-> sequence of <<key, value>> pairs in    *)
(*           insertion order, keys unique]                                 *)
(*   list   [kind |-> "list", items |-> sequence]                          *)
(* Time is counted in minutes (the unit of CACHE_TTL_MINUTES).             *)
(***************************************************************************)
EXTENDS Integers, Sequences, FiniteSets, TLC

VARIABLES
    \* ---- document store and clock (utils/mongoDB.py)
    store,        \* the api_cache collection: a set of documents
    nextId,       \* next _id the store assigns to an inserted document
    dbUp,         \* TRUE while the document store can be reached (the
                  \* aggregator's store operations take it as an input)
    now,          \* datetime.utcnow(), in minutes
    ticks,        \* number of clock advances so far (bounds the run)
    putLog,       \* history: latest successful write per cache key
    \* ---- a client of the cache store (put / get / batchPut callers)
    cacheOp,      \* the last cache operation and what it returned
    \* ---- generate_cache_key on two parameter maps
    keyIn,        \* the two request-parameter maps given
    keyOut,       \* the two keys computed (<<>> before)
    \* ---- retry_with_backoff: one call through the wrapper
    max_retries, initial_delay, max_delay,   \* the decorator's arguments
    wpc,          \* "idle", "enter", "call", "returned", "raised"
    attempt,      \* the loop variable
    calls,        \* history: invocations of the wrapped function
    excs,         \* history: the exceptions those invocations raised
    delays,       \* history: the time.sleep() delays taken
    fret,         \* history: what the wrapped function returned
    wret,         \* what the wrapper returned
    wexc,         \* what the wrapper raised
    \* ---- get_flight_with_aggregator: one call after the other
    pc,           \* "idle", "get_flights", "search", "got_flights",
                  \* "check", "fetch", "returned", "raised", and
                  \* "recovered": returned [] after enrichment raised
    requests,     \* calls of the aggregator so far (bounds the run)
    query,        \* the arguments of the current call
    req_key,      \* get_flights' request_key
    all_flights,  \* all_flights, is_cached: what get_flights returned
    is_cached,
    tasks,        \* the per-token cache checks of the cache-checked path
    fetch_tasks,  \* the per-token upstream detail calls
    enriched_flights,
    cache_batch,  \* the batch handed to batch_save_cache_results
    result,       \* what the aggregator returned
    aggExc,       \* what the aggregator raised
    nSearch,      \* history: upstream search calls of the get_flights
                  \* call in progress
    nSave,        \* history: its save_api_cache_result calls
    nChecks,      \* history: per-token cache checks of this call
    nDetail,      \* history: upstream detail calls of this call
    nBatch,       \* history: batch_save_cache_results calls of this call
    \* ---- the discount functions: one call of one of them
    combo_call,   \* the function called and its arguments
    combo_ret,    \* what it returned (Unset before)
    \* ---- concurrent callers of the cache store
    callers,      \* per caller: the operation in progress and its position
    \* ---- get_mongo_client (utils/mongoDB.py)
    mongo_client, \* the global _mongo_client: None or a client
    client_lock,  \* _client_lock: "free" or the caller that holds it
    clients       \* history: per client created, whether its ping succeeded

cacheVars == <<store, nextId, dbUp, now, ticks, putLog>>
clientVars == <<cacheOp>>
keyVars == <<keyIn, keyOut>>
retryVars == <<max_retries, initial_delay, max_delay, wpc, attempt, calls,
               excs, delays, fret, wret, wexc>>
pipeVars == <<pc, requests, query, req_key, all_flights, is_cached, tasks,
              fetch_tasks, enriched_flights, cache_batch, result, aggExc,
              nSearch, nSave, nChecks, nDetail, nBatch>>
comboVars == <<combo_call, combo_ret>>
handleVars == <<mongo_client, client_lock, clients>>
callerVars == <<callers, mongo_client, client_lock, clients>>
vars == <<store, nextId, dbUp, now, ticks, putLog, cacheOp, keyIn, keyOut,
          max_retries, initial_delay, max_delay, wpc, attempt, calls,
          excs, delays, fret, wret, wexc,
          pc, requests, query, req_key, all_flights, is_cached, tasks,
          fetch_tasks, enriched_flights, cache_batch, result, aggExc,
          nSearch, nSave, nChecks, nDetail, nBatch, combo_call, combo_ret,
          callers, mongo_client, client_lock, clients>>

-----------------------------------------------------------------------------
(* Bounds of the model                                                     *)

MaxTicks == 1          \* clock advances in a run
MaxDictLen == 2        \* entries of a request-parameter map given to the key
MaxBatch == 2          \* entries of a batch a store client writes
MaxRetriesArg == 4     \* largest max_retries the wrapper is configured with
MaxFlights == 2        \* flights in one upstream search response
MaxRequests == 2        \* calls of the aggregator in a run
MaxOffers == 3         \* offers in one list given to a price calculation
MaxCategory == 2       \* offers of one category given to a combo builder
MaxAirlines == 2       \* entries of an include_airlines list
MaxCalls == 2          \* store operations one concurrent caller makes

-----------------------------------------------------------------------------
(* Python values                                                           *)

PyNone == [kind |-> "none"]
PyStr(s) == [kind |-> "str", s |-> s]
PyDict(d) == [kind |-> "dict", d |-> d]
PyList(items) == [kind |-> "list", items |-> items]

\* bool(value) for the kinds of value the pipeline tests with `if value:`
Truthy(v) ==
    CASE v.kind = "none" -> FALSE
      [] v.kind = "str" -> v.s # <<>>
      [] v.kind = "dict" -> v.d # <<>>
      [] v.kind = "list" -> v.items # <<>>
      [] OTHER -> TRUE

RECURSIVE DictGet(_, _, _)
\* dict.get(key, default)
DictGet(d, key, default) ==
    IF d = <<>> THEN default
    ELSE IF Head(d)[1] = key THEN Head(d)[2]
    ELSE DictGet(Tail(d), key, default)

-----------------------------------------------------------------------------
(* generate_cache_key                                                      *)

\* The parameter names the pipeline uses, in Python's string order
\* (code-point order), which sorted() and json.dumps(sort_keys=True) follow.
KeyOrder ==
    << "airlines", "arrival_id", "booking_token", "departure_date",
       "departure_id", "max_price", "travel_class", "trip_type" >>

KeyRank(k) == CHOOSE i \in 1..Len(KeyOrder) : KeyOrder[i] = k

RECURSIVE InsertSorted(_, _)
InsertSorted(pair, sorted) ==
    IF sorted = <<>> THEN <<pair>>
    ELSE IF KeyRank(pair[1]) <= KeyRank(Head(sorted)[1])
         THEN <<pair>> \o sorted
         ELSE <<Head(sorted)>> \o InsertSorted(pair, Tail(sorted))

RECURSIVE SortedItems(_)
\* sorted(d.items()): the pairs ordered by key
SortedItems(d) ==
    IF d = <<>> THEN <<>>
    ELSE InsertSorted(Head(d), SortedItems(Tail(d)))

RECURSIVE JsonDumps(_)
\* json.dumps(value, sort_keys=True). The JSON text is modelled by its
\* syntax tree with the members of every object in the order they are
\* written; two texts are equal iff their trees are.
JsonDumps(v) ==
    CASE v.kind = "none" -> [j |-> "null"]
      [] v.kind = "str" -> [j |-> "string", s |-> v.s]
      [] v.kind = "dict" ->
            LET items == SortedItems(v.d)
            IN [j |-> "object",
                members |-> [i \in 1..Len(items) |->
                                <<items[i][1], JsonDumps(items[i][2])>>]]
      [] v.kind = "int" -> [j |-> "number", n |-> v.n]
      [] v.kind \in {"list", "tuple"} ->
            [j |-> "array",
             elements |-> [i \in 1..Len(v.items) |-> JsonDumps(v.items[i])]]
      [] OTHER -> [j |-> "other"]

\* A variant that hashes the names of the parameters only
generate_cache_key_of_names(request_params) ==
    [sha256 |-> [j |-> "object", members |-> [i \in 1..Len(request_params) |-> <<SortedItems(request_params)[i][1], [j |-> "null"]>>]]]

\* hashlib.sha256(text).hexdigest(): a collision-resistant hash, modelled
\* as an injective tag of the text
Sha256(text) == [sha256 |-> text]

\* A variant that serialises the map in insertion order (no canonical order)
generate_cache_key_unsorted(request_params) ==
    Sha256([j |-> "object",
            members |-> [i \in 1..Len(request_params) |->
                <<request_params[i][1], JsonDumps(request_params[i][2])>>]])

generate_cache_key(request_params) ==
    LET sorted_params == SortedItems(request_params)
        json_str == JsonDumps(PyDict(sorted_params))
    IN Sha256(json_str)

-----------------------------------------------------------------------------
(* The cache store: get_api_cache_result, save_api_cache_result,           *)
(* batch_save_cache_results over the api_cache collection.                 *)
(* A document is [_id, cache_key, request_params, data, cached_at].        *)
(* `up` stands for the collection being obtainable and its operations not  *)
(* raising: with up = FALSE get_collection returns None or the pymongo     *)
(* call raises, and each function takes its failure return.                *)

CACHE_TTL_MINUTES == 4300

Matching(coll, cache_key) == {doc \in coll : doc.cache_key = cache_key}

\* coll.find_one({"cache_key": cache_key}): the first match in natural order
find_one(coll, cache_key) ==
    CHOOSE doc \in Matching(coll, cache_key) :
        \A other \in Matching(coll, cache_key) : doc._id <= other._id

\* the TTL test of get_api_cache_result
IsFreshReversed(cached_at, t) == (t - cached_at) > CACHE_TTL_MINUTES
IsFreshInclusive(cached_at, t) == (t - cached_at) <= CACHE_TTL_MINUTES
IsFresh(cached_at, t) == (t - cached_at) < CACHE_TTL_MINUTES

\* coll.delete_one({"_id": id})
delete_one_skipped(coll, id) == coll
delete_one(coll, id) == {doc \in coll : doc._id # id}

\* get_api_cache_result(request_key) at time t: what it returns (ret) and
\* the collection it leaves (coll)
get_api_cache_result(coll, up, request_key, t) ==
    IF ~up THEN [ret |-> PyNone, coll |-> coll]
    ELSE
        LET cache_key == generate_cache_key(request_key)
        IN IF Matching(coll, cache_key) = {}
           THEN [ret |-> PyNone, coll |-> coll]
           ELSE LET cached_doc == find_one(coll, cache_key)
                IN IF IsFresh(cached_doc.cached_at, t)
                   THEN [ret |-> cached_doc.data, coll |-> coll]
                   ELSE [ret |-> PyNone,
                         coll |-> delete_one(coll, cached_doc._id)]

\* the document save_api_cache_result / batch_save_cache_results build
CacheDocument(request_key, api_response_data, t) ==
    [cache_key |-> generate_cache_key(request_key),
     request_params |-> request_key,
     data |-> api_response_data,
     cached_at |-> t]

StoredAs(id, document) ==
    [_id |-> id,
     cache_key |-> document.cache_key,
     request_params |-> document.request_params,
     data |-> document.data,
     cached_at |-> document.cached_at]

\* coll.replace_one({"cache_key": k}, document, upsert=True): the first
\* match is replaced and keeps its _id; without a match the document is
\* inserted under a new _id. upserted / modified are the counts pymongo
\* reports (a replacement equal to the stored document modifies nothing).
replace_one_upsert(coll, id, document) ==
    IF Matching(coll, document.cache_key) = {}
    THEN [coll |-> coll \cup {StoredAs(id, document)},
          nextId |-> id + 1, upserted |-> 1, modified |-> 0]
    ELSE LET old == find_one(coll, document.cache_key)
             new == StoredAs(old._id, document)
         IN [coll |-> (coll \ {old}) \cup {new},
             nextId |-> id,
             upserted |-> 0,
             modified |-> IF new = old THEN 0 ELSE 1]

\* a save that takes the collection for granted (no `if coll is None`, no
\* except clause)
save_api_cache_result_unguarded(coll, up, id, request_key, api_response_data, t) ==
    LET res == replace_one_upsert(
                   coll, id, CacheDocument(request_key, api_response_data, t))
    IN [ret |-> TRUE, coll |-> res.coll, nextId |-> res.nextId]

\* save_api_cache_result(request_key, api_response_data) at time t
save_api_cache_result(coll, up, id, request_key, api_response_data, t) ==
    IF ~up THEN [ret |-> FALSE, coll |-> coll, nextId |-> id]
    ELSE LET res == replace_one_upsert(
                 coll, id, CacheDocument(request_key, api_response_data, t))
         IN [ret |-> TRUE, coll |-> res.coll, nextId |-> res.nextId]

RECURSIVE bulk_write_ordered(_, _, _, _)
\* the same bulk write with ordered=True: it stops at the first operation
\* the server rejects
bulk_write_ordered(coll, id, operations, bad) ==
    IF operations = <<>> \/ Head(bad)
    THEN [coll |-> coll, nextId |-> id, upserted_count |-> 0,
          modified_count |-> 0, failed |-> operations # <<>>]
    ELSE LET first == replace_one_upsert(coll, id, Head(operations))
             rest == bulk_write_ordered(first.coll, first.nextId,
                                        Tail(operations), Tail(bad))
         IN [coll |-> rest.coll, nextId |-> rest.nextId,
             upserted_count |-> first.upserted + rest.upserted_count,
             modified_count |-> first.modified + rest.modified_count,
             failed |-> rest.failed]

RECURSIVE bulk_write(_, _, _, _)
\* coll.bulk_write(operations, ordered=False): the ReplaceOne upserts are
\* applied one after the other; bad[i] tells that the server rejects
\* operation i. Every operation is attempted, and BulkWriteError is raised
\* after the last one when one was rejected (failed).
bulk_write(coll, id, operations, bad) ==
    IF operations = <<>>
    THEN [coll |-> coll, nextId |-> id, upserted_count |-> 0,
          modified_count |-> 0, failed |-> FALSE]
    ELSE LET first == IF Head(bad)
                      THEN [coll |-> coll, nextId |-> id, upserted |-> 0,
                            modified |-> 0]
                      ELSE replace_one_upsert(coll, id, Head(operations))
             rest == bulk_write(first.coll, first.nextId, Tail(operations),
                                Tail(bad))
         IN [coll |-> rest.coll, nextId |-> rest.nextId,
             upserted_count |-> first.upserted + rest.upserted_count,
             modified_count |-> first.modified + rest.modified_count,
             failed |-> Head(bad) \/ rest.failed]

\* batch_save_cache_results(cache_entries) at time t; cache_entries is a
\* sequence of <<request_key, api_response_data>>, bad the operations the
\* server rejects
batch_save_cache_results(coll, up, id, cache_entries, bad, t) ==
    IF cache_entries = <<>> THEN [ret |-> 0, coll |-> coll, nextId |-> id]
    ELSE IF ~up THEN [ret |-> 0, coll |-> coll, nextId |-> id]
    ELSE LET operations ==
                 [i \in 1..Len(cache_entries) |->
                     CacheDocument(cache_entries[i][1], cache_entries[i][2], t)]
             res == bulk_write(coll, id, operations, bad)
         IN [ret |-> IF res.failed THEN 0
                     ELSE res.upserted_count + res.modified_count,
             coll |-> res.coll, nextId |-> res.nextId]

\* which operations of a batch the server rejects
BadSets(n) == [1..n -> BOOLEAN]
NoneBad(n) == [i \in 1..n |-> FALSE]

\* History of writes: the latest write that reached the store, per key
LogPut(log, request_key, data, t) ==
    LET k == generate_cache_key(request_key)
    IN {e \in log : e.key # k} \cup {[key |-> k, data |-> data, at |-> t]}

RECURSIVE LogBatch(_, _, _, _)
LogBatch(log, cache_entries, bad, t) ==
    IF cache_entries = <<>> THEN log
    ELSE LogBatch(IF Head(bad) THEN log
                  ELSE LogPut(log, Head(cache_entries)[1],
                              Head(cache_entries)[2], t),
                  Tail(cache_entries), Tail(bad), t)

-----------------------------------------------------------------------------
(* Clock and store availability                                            *)

TickSteps == {CACHE_TTL_MINUTES - 1, CACHE_TTL_MINUTES}

Tick(step) ==
    /\ ticks < MaxTicks
    /\ now' = now + step
    /\ ticks' = ticks + 1
    /\ UNCHANGED <<store, nextId, dbUp, putLog>>

StoreFails ==
    /\ dbUp
    /\ dbUp' = FALSE
    /\ UNCHANGED <<store, nextId, now, ticks, putLog>>

StoreRecovers ==
    /\ ~dbUp
    /\ dbUp' = TRUE
    /\ UNCHANGED <<store, nextId, now, ticks, putLog>>

CacheInit ==
    /\ store = {}
    /\ nextId = 1
    /\ dbUp = TRUE
    /\ now = 0
    /\ ticks = 0
    /\ putLog = {}

-----------------------------------------------------------------------------
(* Values the upstream APIs and the callers work with                      *)

Tokens == { <<"t", "A">>, <<"t", "B">> }

\* {"booking_token": token}
BookingKey(token) == << <<"booking_token", PyStr(token)>> >>

\* Responses of the upstream detail API for a token
DetailFull(token) ==
    PyDict(<< <<"selected_flights",
                PyList(<< PyDict(<< <<"flights", PyList(<<PyStr(token)>>)>> >>) >>)>>,
              <<"booking_options", PyList(<<PyStr(token)>>)>> >>)
DetailNoSelected(token) ==
    PyDict(<< <<"booking_options", PyList(<<PyStr(token)>>)>> >>)
DetailEmpty == PyDict(<<>>)

-----------------------------------------------------------------------------
(* A client of the cache store: any caller of put / get / batchPut.        *)

ClientParams == {BookingKey(t) : t \in Tokens}
ClientPayloads == {DetailFull(t) : t \in Tokens}
\* what a client writes: a payload under the key of its token
ClientEntries ==
    {<<BookingKey(t), DetailFull(t)>> : t \in Tokens}
        \cup {<<BookingKey(<<"t", "A">>), DetailNoSelected(<<"t", "A">>)>>}
\* the batches a client writes: the empty batch and the runs of at most
\* MaxBatch consecutive entries of ClientEntrySeq
ClientEntrySeq ==
    << <<BookingKey(<<"t", "A">>), DetailFull(<<"t", "A">>)>>,
       <<BookingKey(<<"t", "B">>), DetailFull(<<"t", "B">>)>>,
       <<BookingKey(<<"t", "A">>), DetailNoSelected(<<"t", "A">>)>> >>
ClientBatches ==
    {SubSeq(ClientEntrySeq, i, j) :
        i \in 1..Len(ClientEntrySeq), j \in 0..Len(ClientEntrySeq)}
            \cap UNION {[1..n -> ClientEntries] : n \in 0..MaxBatch}

\* the concurrent callers of the store (requests served at the same time)
Callers == {"c1", "c2"}
IdleCaller == [pc |-> "idle", made |-> 0]
\* the operations a caller has entered so far
CallsMade(c) == callers[c].made

NoCacheOp == [op |-> "none", params |-> <<>>, ret |-> PyNone, ok |-> FALSE,
              count |-> 0]

CachePut(params, payload) ==
    LET r == save_api_cache_result(store, dbUp, nextId, params, payload, now)
    IN /\ store' = r.coll
       /\ nextId' = r.nextId
       /\ putLog' = IF r.ret THEN LogPut(putLog, params, payload, now) ELSE putLog
       /\ cacheOp' = [op |-> "put", params |-> params, ret |-> PyNone,
                      ok |-> r.ret, count |-> 0]
       /\ UNCHANGED <<dbUp, now, ticks>>

CacheGet(params) ==
    LET r == get_api_cache_result(store, dbUp, params, now)
    IN /\ store' = r.coll
       /\ cacheOp' = [op |-> "get", params |-> params, ret |-> r.ret,
                      ok |-> r.ret # PyNone, count |-> 0]
       /\ UNCHANGED <<nextId, dbUp, now, ticks, putLog>>

CacheBatchPut(entries, bad) ==
    LET r == batch_save_cache_results(store, dbUp, nextId, entries, bad, now)
    IN /\ Len(bad) = Len(entries)
       /\ store' = r.coll
       /\ nextId' = r.nextId
       /\ putLog' = IF dbUp THEN LogBatch(putLog, entries, bad, now)
                    ELSE putLog
       /\ cacheOp' = [op |-> "batch", params |-> entries, ret |-> PyNone,
                      ok |-> dbUp, count |-> r.ret, bad |-> bad]
       /\ UNCHANGED <<dbUp, now, ticks>>

-----------------------------------------------------------------------------
(* generate_cache_key on two request-parameter maps                        *)

TopKeys == {"departure_id", "arrival_id", "max_price"}
NestedKeys == {"airlines", "trip_type"}
ScalarValues == {PyNone, PyStr(<<"x">>)}

\* insertion-ordered maps of at most n entries, keys unique
DictsOver(keys, values, n) ==
    {d \in UNION {[1..m -> keys \X values] : m \in 0..n} :
        \A i, j \in 1..Len(d) : i # j => d[i][1] # d[j][1]}

NestedDicts == {PyDict(d) : d \in DictsOver(NestedKeys, {PyStr(<<"x">>)}, MaxDictLen)}
ParamDicts == DictsOver(TopKeys, ScalarValues \cup NestedDicts, MaxDictLen)

Reverse(seq) == [i \in 1..Len(seq) |-> seq[Len(seq) + 1 - i]]

\* the same map built in another insertion order: entries permuted by p,
\* nested maps reversed when flip
Reordered(d, p, flip) ==
    [i \in 1..Len(d) |->
        LET e == d[p[i]]
        IN IF flip /\ e[2].kind = "dict"
           THEN <<e[1], PyDict(Reverse(e[2].d))>>
           ELSE e]

ComputeKeys ==
    /\ keyOut = <<>>
    /\ keyOut' = <<generate_cache_key(keyIn[1]), generate_cache_key(keyIn[2])>>
    /\ UNCHANGED <<keyIn, cacheOp>>
    /\ UNCHANGED cacheVars

\* put under the first map, then a get under the second
PutThenGet(payload) ==
    /\ keyOut # <<>>
    /\ cacheOp.op = "none"
    /\ LET w == save_api_cache_result(store, dbUp, nextId, keyIn[1], payload, now)
           r == get_api_cache_result(w.coll, dbUp, keyIn[2], now)
       IN /\ store' = r.coll
          /\ nextId' = w.nextId
          /\ putLog' = LogPut(putLog, keyIn[1], payload, now)
          /\ cacheOp' = [op |-> "get", params |-> keyIn[2], ret |-> r.ret,
                         ok |-> r.ret # PyNone, count |-> 0]
    /\ UNCHANGED <<dbUp, now, ticks, keyIn, keyOut>>

-----------------------------------------------------------------------------
(* String helpers (strings are sequences of one-character strings)         *)

LowerCase == <<"a", "b", "c", "d", "e", "f", "g", "h", "i", "j", "k", "l", "m", "n", "o", "p", "q", "r", "s", "t", "u", "v", "w", "x", "y", "z">>
UpperCase == <<"A", "B", "C", "D", "E", "F", "G", "H", "I", "J", "K", "L", "M", "N", "O", "P", "Q", "R", "S", "T", "U", "V", "W", "X", "Y", "Z">>
DigitChars == {"0", "1", "2", "3", "4", "5", "6", "7", "8", "9"}

LetterIndex(alphabet, c) == CHOOSE i \in 1..Len(alphabet) : alphabet[i] = c
IsUpperChar(c) == \E i \in 1..Len(UpperCase) : UpperCase[i] = c
IsLowerChar(c) == \E i \in 1..Len(LowerCase) : LowerCase[i] = c
LowerChar(c) == IF IsUpperChar(c) THEN LowerCase[LetterIndex(UpperCase, c)] ELSE c
UpperChar(c) == IF IsLowerChar(c) THEN UpperCase[LetterIndex(LowerCase, c)] ELSE c
IsDigitChar(c) == c \in DigitChars

\* str.lower(), str.upper()
StrLower(s) == [i \in 1..Len(s) |-> LowerChar(s[i])]
StrUpper(s) == [i \in 1..Len(s) |-> UpperChar(s[i])]

RECURSIVE LStrip(_)
LStrip(s) == IF s # <<>> /\ Head(s) = " " THEN LStrip(Tail(s)) ELSE s
RECURSIVE RStrip(_)
RStrip(s) ==
    IF s # <<>> /\ s[Len(s)] = " " THEN RStrip(SubSeq(s, 1, Len(s) - 1)) ELSE s
\* str.strip()
StrStrip(s) == RStrip(LStrip(s))

\* `sub in s`
StrContains(sub, s) ==
    \E i \in 1..(Len(s) - Len(sub) + 1) : SubSeq(s, i, i + Len(sub) - 1) = sub

\* s.replace(c, "") for a single character c
StrRemove(s, c) == SelectSeq(s, LAMBDA x : x # c)

\* s.isalpha()
StrIsAlpha(s) ==
    s # <<>> /\ \A i \in 1..Len(s) : IsUpperChar(s[i]) \/ IsLowerChar(s[i])

RECURSIVE StrSplit(_, _)
\* s.split(sep) for a single character sep: the pieces, empty ones included
StrSplit(s, sep) ==
    IF \A i \in 1..Len(s) : s[i] # sep THEN <<s>>
    ELSE LET k == CHOOSE i \in 1..Len(s) :
                      s[i] = sep /\ \A j \in 1..(i - 1) : s[j] # sep
         IN <<SubSeq(s, 1, k - 1)>> \o StrSplit(SubSeq(s, k + 1, Len(s)), sep)

RECURSIVE StrJoin(_, _)
\* sep.join(parts)
StrJoin(parts, sep) ==
    IF parts = <<>> THEN <<>>
    ELSE IF Len(parts) = 1 THEN parts[1]
    ELSE parts[1] \o <<sep>> \o StrJoin(Tail(parts), sep)

RECURSIVE DigitsValue(_)
DigitsValue(s) ==
    IF s = <<>> THEN 0
    ELSE 10 * DigitsValue(SubSeq(s, 1, Len(s) - 1))
         + (CHOOSE n \in 0..9 :
               <<"0", "1", "2", "3", "4", "5", "6", "7", "8", "9">>[n + 1] = s[Len(s)])

\* int(s) is defined for a non-empty string of digits; it raises otherwise
IntParses(s) == s # <<>> /\ \A i \in 1..Len(s) : IsDigitChar(s[i])

-----------------------------------------------------------------------------
(* Query normalisation: normalize_price, map_airlines                      *)

AIRLINE_MAP ==
    << <<<<"a", "i", "r", " ", "i", "n", "d", "i", "a">>, <<"A", "I">>>>,
       <<<<"i", "n", "d", "i", "g", "o">>, <<"6", "E">>>>,
       <<<<"s", "p", "i", "c", "e", "j", "e", "t">>, <<"S", "G">>>>,
       <<<<"g", "o", "a", "i", "r">>, <<"G", "8">>>>,
       <<<<"v", "i", "s", "t", "a", "r", "a">>, <<"U", "K">>>>,
       <<<<"a", "i", "r", " ", "a", "s", "i", "a">>, <<"I", "5">>>>,
       <<<<"a", "k", "a", "s", "a">>, <<"Q", "P">>>>,
       <<<<"a", "i", "r", " ", "i", "n", "d", "i", "a", " ", "e", "x", "p", "r", "e", "s", "s">>, <<"I", "X">>>>,
       <<<<"a", "l", "l", "i", "a", "n", "c", "e", " ", "a", "i", "r">>, <<"9", "I">>>>,
       <<<<"s", "t", "a", "r", " ", "a", "i", "r">>, <<"S", "5">>>>,
       <<<<"f", "l", "y", "b", "i", "g">>, <<"S", "9">>>>,
       <<<<"i", "n", "d", "i", "a", "o", "n", "e", " ", "a", "i", "r">>, <<"I", "7">>>>,
       <<<<"f", "l", "y", "9", "1">>, <<"I", "C">>>> >>

ANY_TOKENS ==
    { <<"a", "n", "y">>,
      <<"a", "n", "y", " ", "a", "i", "r", "l", "i", "n", "e">>,
      <<"n", "o", " ", "p", "r", "e", "f", "e", "r", "e", "n", "c", "e">>,
      <<"n", "o", " ", "a", "i", "r", "l", "i", "n", "e">>,
      <<"a", "l", "l", " ", "a", "i", "r", "l", "i", "n", "e", "s">> }

\* normalize_price(value), value None or a string
normalize_price(value) ==
    IF ~Truthy(value) THEN PyNone
    ELSE LET cleaned == SelectSeq(value.s, IsDigitChar)
         IN IF cleaned # <<>> THEN PyStr(cleaned) ELSE PyNone

\* the code one entry of the airline list contributes (<<>> when none)
AirlineCodes(a) ==
    IF Len(a) <= 3 /\ StrIsAlpha(a) THEN <<StrUpper(a)>>
    ELSE IF \E i \in 1..Len(AIRLINE_MAP) : AIRLINE_MAP[i][1] = a
    THEN <<AIRLINE_MAP[CHOOSE i \in 1..Len(AIRLINE_MAP) : AIRLINE_MAP[i][1] = a][2]>>
    ELSE LET hits == {i \in 1..Len(AIRLINE_MAP) :
                        StrContains(StrRemove(AIRLINE_MAP[i][1], " "),
                                    StrRemove(a, " "))}
         IN IF hits = {} THEN <<>>
            ELSE <<AIRLINE_MAP[CHOOSE i \in hits : \A j \in hits : i <= j][2]>>

RECURSIVE FlattenCodes(_)
FlattenCodes(airlines) ==
    IF airlines = <<>> THEN <<>>
    ELSE AirlineCodes(Head(airlines)) \o FlattenCodes(Tail(airlines))

\* the orders in which iterating set(codes) can yield its elements
SetOrders(codes) ==
    LET elems == {codes[i] : i \in 1..Len(codes)}
        n == Cardinality(elems)
    IN {o \in [1..n -> elems] : \A i, j \in 1..n : i # j => o[i] # o[j]}

\* map_airlines(user_input), user_input None or a string: the values it can
\* return (",".join(set(codes)) follows the iteration order of a set)
map_airlines(user_input) ==
    IF ~Truthy(user_input) THEN {PyNone}
    ELSE LET raw == StrStrip(StrLower(user_input.s))
         IN IF \E tok \in ANY_TOKENS : StrContains(tok, raw) THEN {PyNone}
            ELSE LET pieces == StrSplit(raw, ",")
                     airlines == SelectSeq(
                         [i \in 1..Len(pieces) |-> StrStrip(pieces[i])],
                         LAMBDA a : a # <<>>)
                     codes == FlattenCodes(airlines)
                 IN IF codes = <<>> THEN {PyNone}
                    ELSE {PyStr(StrJoin(o, ",")) : o \in SetOrders(codes)}

-----------------------------------------------------------------------------
(* retry_with_backoff: the wrapper around one call of the decorated        *)
(* function.                                                               *)

Unset == [kind |-> "unset"]
NoException == "none"

Min(a, b) == IF a <= b THEN a ELSE b

RECURSIVE Pow2(_)
Pow2(n) == IF n <= 0 THEN 1 ELSE 2 * Pow2(n - 1)

\* delay = min(initial_delay * (2 ** attempt), max_delay)
BackoffDelayUncapped(initial, maximum, k) == initial * Pow2(k)
BackoffDelay(initial, maximum, k) == Min(initial * Pow2(k), maximum)

\* the test `attempt == max_retries - 1`
IsLastAttemptOffByOne(k, retries) == k = retries
IsLastAttemptNever(k, retries) == FALSE
IsLastAttempt(k, retries) == k = retries - 1

\* `for attempt in range(max_retries):` is entered; an empty range falls
\* through to the end of wrapper, which returns None
WrapperEnter ==
    /\ wpc = "enter"
    /\ IF max_retries > 0
       THEN /\ wpc' = "call"
            /\ attempt' = 0
            /\ UNCHANGED wret
       ELSE /\ wpc' = "returned"
            /\ wret' = PyNone
            /\ UNCHANGED attempt
    /\ UNCHANGED <<max_retries, initial_delay, max_delay, calls, excs, delays,
                   fret, wexc>>

\* `return func(*args, **kwargs)` with func returning v
WrapperOnReturn(v) ==
    /\ wpc = "call"
    /\ calls' = calls + 1
    /\ fret' = v
    /\ wret' = v
    /\ wpc' = "returned"
    /\ UNCHANGED <<max_retries, initial_delay, max_delay, attempt, excs,
                   delays, wexc>>

\* a wrapper that goes on to another attempt after every exception
WrapperOnRaiseRetriesEver(e) ==
    /\ wpc = "call"
    /\ calls' = calls + 1
    /\ excs' = Append(excs, e)
    /\ attempt' = attempt + 1
    /\ wpc' = "call"
    /\ UNCHANGED <<max_retries, initial_delay, max_delay, delays, fret, wret,
                   wexc>>

\* func raising e: the except clause, the sleep and the next iteration
WrapperOnRaise(e) ==
    /\ wpc = "call"
    /\ calls' = calls + 1
    /\ excs' = Append(excs, e)
    /\ IF IsLastAttempt(attempt, max_retries)
       THEN /\ wpc' = "raised"
            /\ wexc' = e
            /\ UNCHANGED <<attempt, delays, wret>>
       ELSE /\ delays' = Append(delays,
                            BackoffDelay(initial_delay, max_delay, attempt))
            /\ UNCHANGED wexc
            /\ IF attempt + 1 < max_retries
               THEN /\ attempt' = attempt + 1
                    /\ wpc' = "call"
                    /\ UNCHANGED wret
               ELSE /\ wpc' = "returned"
                    /\ wret' = PyNone
                    /\ UNCHANGED attempt
    /\ UNCHANGED <<max_retries, initial_delay, max_delay, fret>>

\* the wrapper's state before a call through it, for given arguments
WrapperReady(retries, initial, maximum) ==
    /\ max_retries = retries
    /\ initial_delay = initial
    /\ max_delay = maximum
    /\ wpc = "enter"
    /\ attempt = 0
    /\ calls = 0
    /\ excs = <<>>
    /\ delays = <<>>
    /\ fret = Unset
    /\ wret = Unset
    /\ wexc = NoException

-----------------------------------------------------------------------------
(* get_flights and get_flight_with_aggregator                              *)

GF_MAX_RETRIES == 4
GF_INITIAL_DELAY == 1
GF_MAX_DELAY == 8

\* FLIGHT_TYPE = os.getenv("FLIGHT_TYPE")
FLIGHT_TYPE == PyStr(<<"2">>)

\* Flights the upstream search API returns
FlightA ==
    PyDict(<< <<"booking_token", PyStr(<<"t", "A">>)>>,
              <<"price", PyDict(<< <<"amount", PyStr(<<"4", "0", "0">>)>> >>)>> >>)
FlightB ==
    PyDict(<< <<"booking_token", PyStr(<<"t", "B">>)>>,
              <<"price", PyDict(<< <<"amount", PyStr(<<"4", "5", "0">>)>> >>)>> >>)
FlightOverBudget ==
    PyDict(<< <<"booking_token", PyStr(<<"t", "A">>)>>,
              <<"price", PyDict(<< <<"amount", PyStr(<<"1", ",", "9", "0", "0">>)>> >>)>> >>)
FlightNoToken ==
    PyDict(<< <<"price", [kind |-> "int", n |-> 300]>> >>)
FlightEmptyToken ==
    PyDict(<< <<"booking_token", PyStr(<<>>)>>,
              <<"price", PyDict(<< <<"amount", PyStr(<<"3", "5", "0">>)>> >>)>> >>)

\* outbound_flights = best + other of a search response: the empty
\* response and the runs of MaxFlights consecutive flights of the catalog
\* (shorter at its end)
\* a second result carrying the token of FlightA
FlightATwin ==
    PyDict(<< <<"booking_token", PyStr(<<"t", "A">>)>>,
              <<"price", PyDict(<< <<"amount", PyStr(<<"3", "9", "0">>)>> >>)>> >>)

FlightCatalog ==
    <<FlightB, FlightA, FlightNoToken, FlightEmptyToken, FlightOverBudget>>
SearchResponses ==
    {<<>>, <<FlightA, FlightATwin>>} \cup
    {SubSeq(FlightCatalog, i, Min(i + MaxFlights - 1, Len(FlightCatalog))) :
        i \in 1..Len(FlightCatalog)}

\* The calls made to the aggregator
Queries ==
    {[departure_id |-> PyStr(<<"D", "E", "L">>), arrival_id |-> PyStr(<<"B", "O", "M">>),
      departure_date |-> PyStr(<<"2", "0", "2", "5", "-", "0", "1", "-", "0", "1">>), include_airlines |-> PyNone,
      max_price |-> mp, travel_class |-> PyNone] : mp \in {PyStr(<<"₹", "5", "0", "0">>)}}

\* safe_get_token(flight)
safe_get_token(flight) == DictGet(flight.d, "booking_token", PyNone)

\* is_flight_under_budget(flight, max_price)
is_flight_under_budget(flight, max_price) ==
    IF ~Truthy(max_price) THEN TRUE
    ELSE LET cleaned_max_price == normalize_price(max_price)
         IN IF ~Truthy(cleaned_max_price) THEN TRUE
            ELSE LET price_obj == DictGet(flight.d, "price", PyDict(<<>>))
                     price_amount ==
                         IF price_obj.kind = "dict"
                         THEN DictGet(price_obj.d, "amount", PyNone)
                         ELSE DictGet(flight.d, "price_amount", PyNone)
                 IN IF Truthy(price_amount)
                    THEN LET digits == StrRemove(price_amount.s, ",")
                         IN IF IntParses(digits)
                            THEN DigitsValue(digits)
                                     <= DigitsValue(cleaned_max_price.s)
                            ELSE TRUE
                    ELSE TRUE

\* the request_key get_flights builds; the aggregator passes no travel_class,
\* so get_flights sees its default None
RequestKey(q, normalized_airlines) ==
    << <<"departure_id", q.departure_id>>,
       <<"arrival_id", q.arrival_id>>,
       <<"departure_date", q.departure_date>>,
       <<"trip_type", FLIGHT_TYPE>>,
       <<"max_price", normalize_price(q.max_price)>>,
       <<"airlines", normalized_airlines>>,
       <<"travel_class", q.travel_class>> >>

\* the arguments get_flight_with_aggregator calls get_flights with: its own
\* but travel_class, which it does not pass on and get_flights defaults to
\* None
GetFlightsArgs(q) == [q EXCEPT !.travel_class = PyNone]

\* the enriched entry both enrich functions assemble from booking data
EnrichedFlight(booking_data) ==
    LET selected == DictGet(booking_data.d, "selected_flights", PyList(<<>>))
        booking_opts == DictGet(booking_data.d, "booking_options", PyList(<<>>))
        first == selected.items[1]
        flight_obj ==
            IF Truthy(selected) /\ selected.kind = "list"
               /\ first.kind = "dict"
               /\ Truthy(DictGet(first.d, "flights", PyNone))
            THEN DictGet(first.d, "flights", PyNone)
            ELSE PyList(<<>>)
    IN PyDict(<< <<"flight_data", flight_obj>>,
                 <<"booking_options", booking_opts>> >>)

\* what the upstream detail call for a token can come to: the call raising
\* (fetch_booking_options_async then returns None), an empty response, or
\* the response for that token
DetailOk(token) ==
    IF token = <<"t", "A">> THEN DetailFull(token) ELSE DetailNoSelected(token)
DetailOutcomes(token) == {PyNone, DetailEmpty, DetailOk(token)}

\* the test `if not token: continue` of both enrich functions
IsTokenlessNoneOnly(token) == token = PyNone
IsTokenless(token) == ~Truthy(token)

\* the tasks list both enrich functions build: one entry per flight that
\* carries a token (flight is the index of the flight in filtered_flights;
\* attempts counts the upstream detail calls made for the task, reached
\* tells that the task's cache check returned what the store answered)
RECURSIVE TokenTasks(_, _)
TokenTasks(filtered, i) ==
    IF i > Len(filtered) THEN <<>>
    ELSE LET token == safe_get_token(filtered[i])
         IN (IF IsTokenless(token) THEN <<>>
             ELSE <<[flight |-> i, token |-> token.s, done |-> FALSE,
                     result |-> PyNone, attempts |-> 0,
                     reached |-> FALSE]>>)
            \o TokenTasks(filtered, i + 1)

\* await asyncio.gather(*tasks, return_exceptions=True) resumes
GatherFirstCompleted(ts) == \E i \in 1..Len(ts) : ts[i].done
GatherDone(ts) == \A i \in 1..Len(ts) : ts[i].done

\* the strategy test `if is_cached:` of the aggregator
UseCacheAlways(cached) == TRUE
UseCacheChecked(cached) == cached

\* the loop over (task, result) pairs that skips failed results
IsFailedFetchNoneOnly(booking_data) == booking_data = PyNone
IsFailedFetch(booking_data) == ~Truthy(booking_data)

\* the partition test of the cache-checked path
IsCacheMissAlways(cached_data) == TRUE
IsCacheMiss(cached_data) == cached_data.kind = "exception" \/ cached_data = PyNone

\* the test `if outbound_flights:` before a search result is cached
ShouldCacheSearchAlways(outbound_flights) == TRUE
ShouldCacheSearch(outbound_flights) == outbound_flights # <<>>

RECURSIVE EnrichedOf(_)
\* the enriched entries of the tasks whose result is usable, in task order
EnrichedOf(ts) ==
    IF ts = <<>> THEN <<>>
    ELSE (IF IsFailedFetch(Head(ts).result) THEN <<>>
          ELSE <<EnrichedFlight(Head(ts).result)>>)
         \o EnrichedOf(Tail(ts))

RECURSIVE CacheBatchOf(_)
\* cache_batch: (booking_key, booking_data) of the usable results
CacheBatchOf(ts) ==
    IF ts = <<>> THEN <<>>
    ELSE (IF IsFailedFetch(Head(ts).result) THEN <<>>
          ELSE <<<<BookingKey(Head(ts).token), Head(ts).result>>>>)
         \o CacheBatchOf(Tail(ts))

\* the cache-checked path's partition of the settled cache checks
CacheHits(ts) == SelectSeq(ts, LAMBDA t : ~IsCacheMiss(t.result))
\* a variant that fetches only the checks that returned None
CacheMissesNoneOnly(ts) == SelectSeq(ts, LAMBDA t : t.result = PyNone)
CacheMisses(ts) == SelectSeq(ts, LAMBDA t : IsCacheMiss(t.result))
Relaunched(ts) ==
    [i \in 1..Len(ts) |->
        [flight |-> ts[i].flight, token |-> ts[i].token,
         done |-> FALSE, result |-> PyNone, attempts |-> 0,
         reached |-> FALSE]]

PyTuple(items) == [kind |-> "tuple", items |-> items]
\* an exception object, as gather(return_exceptions=True) hands it back
PyException(e) == [kind |-> "exception", e |-> e]

\* save_api_cache_result(...) as a statement, its return value unused,
\* followed by `return outbound_flights, False`
ReturnAfterSaveChecked(saved, outbound_flights) ==
    PyTuple(<<PyList(IF saved THEN outbound_flights ELSE <<>>), FALSE>>)
ReturnAfterSave(saved, outbound_flights) ==
    PyTuple(<<PyList(outbound_flights), FALSE>>)

NoQuery == [departure_id |-> PyNone, arrival_id |-> PyNone,
            departure_date |-> PyNone, include_airlines |-> PyNone,
            max_price |-> PyNone, travel_class |-> PyNone]

PipeInit ==
    /\ pc = "idle"
    /\ requests = 0
    /\ query = NoQuery
    /\ req_key = <<>>
    /\ all_flights = PyNone
    /\ is_cached = FALSE
    /\ tasks = <<>>
    /\ fetch_tasks = <<>>
    /\ enriched_flights = <<>>
    /\ cache_batch = <<>>
    /\ result = Unset
    /\ aggExc = NoException
    /\ nSearch = 0 /\ nSave = 0 /\ nChecks = 0 /\ nDetail = 0 /\ nBatch = 0

\* get_flight_with_aggregator(...) is called, step minutes after the call
\* before it ended: it calls get_flights through the retry wrapper
AggregatorCall(q, step) ==
    /\ pc \in {"idle", "returned", "recovered", "raised"}
    /\ requests < MaxRequests
    /\ IF step = 0 THEN UNCHANGED <<now, ticks>>
       ELSE /\ ticks < MaxTicks
            /\ now' = now + step
            /\ ticks' = ticks + 1
    /\ requests' = requests + 1
    /\ query' = q
    /\ pc' = "get_flights"
    /\ req_key' = <<>>
    /\ all_flights' = PyNone
    /\ is_cached' = FALSE
    /\ tasks' = <<>>
    /\ fetch_tasks' = <<>>
    /\ enriched_flights' = <<>>
    /\ cache_batch' = <<>>
    /\ result' = Unset
    /\ aggExc' = NoException
    /\ nSearch' = 0 /\ nSave' = 0 /\ nChecks' = 0 /\ nDetail' = 0 /\ nBatch' = 0
    /\ max_retries' = GF_MAX_RETRIES
    /\ initial_delay' = GF_INITIAL_DELAY
    /\ max_delay' = GF_MAX_DELAY
    /\ wpc' = "enter"
    /\ attempt' = 0
    /\ calls' = 0
    /\ excs' = <<>>
    /\ delays' = <<>>
    /\ fret' = Unset
    /\ wret' = Unset
    /\ wexc' = NoException
    /\ UNCHANGED <<store, nextId, dbUp, putLog, clientVars, keyVars, comboVars,
                   callerVars>>

\* the aggregator after get_flights returned (flights, cached): the budget
\* filter, the early return, the choice of the enrichment path and the
\* launch of its first gather; the wrapper's frame and what it counted are
\* gone
AggregatorResume ==
    LET flights == wret.items[1]
        cached == wret.items[2]
        outbound_list == IF Truthy(flights) THEN flights.items ELSE <<>>
        filtered == SelectSeq(outbound_list,
                        LAMBDA f : is_flight_under_budget(f, query.max_price))
        launched == TokenTasks(filtered, 1)
    IN /\ pc = "got_flights"
       /\ wpc' = "idle" /\ attempt' = 0 /\ calls' = 0 /\ excs' = <<>>
       /\ delays' = <<>> /\ fret' = Unset /\ wret' = Unset
       /\ nSearch' = 0 /\ nSave' = 0
       /\ UNCHANGED <<max_retries, initial_delay, max_delay, wexc>>
       /\ UNCHANGED <<cacheVars, clientVars, keyVars, comboVars,
                   callerVars>>
       /\ UNCHANGED <<requests, query, req_key, cache_batch, aggExc, nChecks,
                      nDetail, nBatch>>
       /\ all_flights' = flights
       /\ is_cached' = cached
       /\ enriched_flights' = <<>>
       /\ IF filtered = <<>> \/ launched = <<>>
          THEN /\ pc' = "returned"
               /\ result' = PyList(<<>>)
               /\ UNCHANGED <<tasks, fetch_tasks>>
          ELSE IF UseCacheChecked(cached)
          THEN /\ pc' = "check"
               /\ tasks' = launched
               /\ UNCHANGED <<fetch_tasks, result>>
          ELSE /\ pc' = "fetch"
               /\ fetch_tasks' = launched
               /\ UNCHANGED <<tasks, result>>

\* `except Exception as e:` around asyncio.run(enrich...): the exception
\* is caught and enriched_flights = [] is returned
OnEnrichmentExceptionUncaught(e) == [pc |-> "raised", aggExc |-> e, result |-> Unset]
OnEnrichmentException(e) == [pc |-> "recovered", aggExc |-> NoException, result |-> PyList(<<>>)]

\* an exception leaves the running enrich coroutine (asyncio.run itself
\* included) at any point of the enrichment
EnrichmentRaises(e) ==
    /\ pc \in {"check", "fetch"}
    /\ pc' = OnEnrichmentException(e).pc
    /\ aggExc' = OnEnrichmentException(e).aggExc
    /\ result' = OnEnrichmentException(e).result
    /\ UNCHANGED <<cacheVars, clientVars, keyVars, comboVars, retryVars, callerVars>>
    /\ UNCHANGED <<requests, query, req_key, all_flights, is_cached, tasks,
                   fetch_tasks, enriched_flights, cache_batch,
                   nSearch, nSave, nChecks, nDetail, nBatch>>

\* the wrapper's loop is entered
GetFlightsEnter ==
    /\ pc = "get_flights"
    /\ WrapperEnter
    /\ UNCHANGED <<cacheVars, clientVars, keyVars, comboVars, pipeVars,
                   callerVars>>

\* one invocation of get_flights up to its cache check: a hit returns,
\* a miss issues the upstream search call (up: the read reaches the store)
GetFlightsAttempt(up) ==
    /\ pc = "get_flights"
    /\ wpc = "call"
    /\ \E normalized_airlines \in map_airlines(query.include_airlines) :
        LET key == RequestKey(GetFlightsArgs(query), normalized_airlines)
            cached_result == get_api_cache_result(store, up, key, now)
        IN /\ req_key' = key
           /\ store' = cached_result.coll
           /\ IF cached_result.ret # PyNone
              THEN /\ WrapperOnReturn(PyTuple(<<cached_result.ret, TRUE>>))
                   /\ pc' = "got_flights"
                   /\ UNCHANGED nSearch
              ELSE /\ pc' = "search"
                   /\ nSearch' = nSearch + 1
                   /\ UNCHANGED retryVars
    /\ UNCHANGED <<all_flights, is_cached, tasks, fetch_tasks,
                   enriched_flights, result>>
    /\ UNCHANGED <<nextId, dbUp, now, ticks, putLog, clientVars, keyVars, comboVars,
                   callerVars>>
    /\ UNCHANGED <<requests, query, cache_batch, aggExc, nSave, nChecks,
                   nDetail, nBatch>>

\* the upstream search call returns outbound_flights: the result is cached
\* when not empty and get_flights returns (outbound_flights, False)
\* (up: the write reaches the store)
SearchReturns(outbound_flights, up) ==
    /\ pc = "search"
    /\ pc' = "got_flights"
    /\ IF ShouldCacheSearch(outbound_flights)
       THEN LET saved == save_api_cache_result(store, up, nextId, req_key,
                                               PyList(outbound_flights), now)
            IN /\ WrapperOnReturn(ReturnAfterSave(saved.ret, outbound_flights))
               /\ store' = saved.coll
               /\ nextId' = saved.nextId
               /\ putLog' = IF saved.ret
                            THEN LogPut(putLog, req_key,
                                        PyList(outbound_flights), now)
                            ELSE putLog
               /\ nSave' = nSave + 1
       ELSE /\ WrapperOnReturn(PyTuple(<<PyList(outbound_flights), FALSE>>))
            /\ UNCHANGED <<store, nextId, putLog, nSave>>
    /\ UNCHANGED <<dbUp, now, ticks, clientVars, keyVars, comboVars,
                   callerVars>>
    /\ UNCHANGED <<requests, query, req_key, all_flights, is_cached, tasks,
                   fetch_tasks, enriched_flights, cache_batch, result, aggExc,
                   nSearch, nChecks, nDetail, nBatch>>

\* the upstream search call raises e: the wrapper retries or gives up; the
\* aggregator does not catch what get_flights raises
SearchRaises(e) ==
    /\ pc = "search"
    /\ WrapperOnRaise(e)
    /\ pc' = IF wpc' = "call" THEN "get_flights" ELSE "raised"
    /\ aggExc' = IF wpc' = "raised" THEN e
                 ELSE IF wpc' = "returned" THEN "TypeError"
                 ELSE aggExc
    /\ UNCHANGED <<cacheVars, clientVars, keyVars, comboVars,
                   callerVars>>
    /\ UNCHANGED <<requests, query, req_key, all_flights, is_cached, tasks,
                   fetch_tasks, enriched_flights, cache_batch, result,
                   nSearch, nSave, nChecks, nDetail, nBatch>>

\* what the gather of the cache checks holds for a check: the exception
\* the task raised, or what get_api_cache_result returned
CheckResult(cached_data, e) ==
    IF e # NoException THEN [ret |-> PyException(e), coll |-> store] ELSE cached_data

\* enrich_flights_with_cache_async: the cache check of tasks[i] settles
\* (up: the read reaches the store; e: the exception the task raises
\* instead); when the gather resumes, the hits are assembled and the
\* misses are launched as upstream detail calls
CacheCheckSettles(i, up, e) ==
    /\ pc = "check"
    /\ ~tasks[i].done
    /\ e = NoException \/ up
    /\ LET cached_data == CheckResult(get_api_cache_result(
                              store, up, BookingKey(tasks[i].token), now), e)
           settled == [tasks EXCEPT ![i] = [@ EXCEPT !.done = TRUE,
                                                     !.result = cached_data.ret,
                                                     !.reached = up /\ e = NoException]]
           hits == CacheHits(settled)
           misses == CacheMisses(settled)
           assembled == [k \in 1..Len(hits) |-> EnrichedFlight(hits[k].result)]
       IN /\ store' = cached_data.coll
          /\ tasks' = settled
          /\ nChecks' = nChecks + 1
          /\ IF ~GatherDone(settled)
             THEN UNCHANGED <<pc, fetch_tasks, enriched_flights, result>>
             ELSE /\ enriched_flights' = assembled
                  /\ IF misses = <<>>
                     THEN /\ pc' = "returned"
                          /\ result' = PyList(assembled)
                          /\ UNCHANGED fetch_tasks
                     ELSE /\ pc' = "fetch"
                          /\ fetch_tasks' = Relaunched(misses)
                          /\ UNCHANGED result
    /\ UNCHANGED <<nextId, dbUp, now, ticks, putLog, clientVars, keyVars, comboVars,
                   retryVars,
                   callerVars>>
    /\ UNCHANGED <<requests, query, req_key, all_flights, is_cached,
                   cache_batch, aggExc, nSearch, nSave, nDetail, nBatch>>

\* both enrich functions: the upstream detail call of fetch_tasks[j]
\* settles with booking_data; when the gather resumes, the usable results
\* are assembled, batch-saved (up: the write reaches the store) and the
\* enriched list is returned
DetailSettles(j, booking_data, up, bad) ==
    /\ pc = "fetch"
    /\ ~fetch_tasks[j].done
    /\ LET settled == [fetch_tasks EXCEPT ![j] =
                           [@ EXCEPT !.done = TRUE, !.result = booking_data,
                                     !.attempts = @ + 1]]
           enriched == enriched_flights \o EnrichedOf(settled)
           batch == CacheBatchOf(settled)
           saved == batch_save_cache_results(store, up, nextId, batch, bad,
                                             now)
       IN /\ fetch_tasks' = settled
          /\ bad = IF GatherDone(settled) /\ up THEN bad
                   ELSE NoneBad(Len(batch))
          /\ Len(bad) = Len(batch)
          /\ nDetail' = nDetail + 1
          /\ IF ~GatherDone(settled)
             THEN UNCHANGED <<pc, enriched_flights, cache_batch, result, nBatch,
                              store, nextId, putLog>>
             ELSE /\ enriched_flights' = enriched
                  /\ cache_batch' = batch
                  /\ result' = PyList(enriched)
                  /\ pc' = "returned"
                  /\ IF batch # <<>>
                     THEN /\ store' = saved.coll
                          /\ nextId' = saved.nextId
                          /\ putLog' = IF up
                                       THEN LogBatch(putLog, batch, bad, now)
                                       ELSE putLog
                          /\ nBatch' = nBatch + 1
                     ELSE UNCHANGED <<store, nextId, putLog, nBatch>>
    /\ UNCHANGED <<dbUp, now, ticks, clientVars, keyVars, comboVars, retryVars,
                   callerVars>>
    /\ UNCHANGED <<requests, query, req_key, all_flights, is_cached, tasks,
                   aggExc, nSearch, nSave, nChecks>>

-----------------------------------------------------------------------------
(* Offers and discounts: rag_platform_combo_retriever.py and               *)
(* rag_combo_builder.py. Prices are integers in units of 1/10000 rupee and *)
(* discount values (float(match.group(1))) integers in tenths, so that the *)
(* quotients of the prices and percentages below are exact.                *)

\* n rupees as a price; a discount value as a price
Rupees(n) == n * 10000
ValueAsPrice(value) == value * 1000

\* offer.get(key, default)
OfferGet(offer, key, default) ==
    IF key \in DOMAIN offer THEN offer[key] ELSE default

\* the end of the longest run of digits starting at s[i] (i - 1 without one)
RECURSIVE DigitRunEnd(_, _)
DigitRunEnd(s, i) ==
    IF i <= Len(s) /\ IsDigitChar(s[i]) THEN DigitRunEnd(s, i + 1) ELSE i - 1

\* \s* from s[i] on: the first position that holds no space
RECURSIVE SkipSpaces(_, _)
SkipSpaces(s, i) ==
    IF i <= Len(s) /\ s[i] = " " THEN SkipSpaces(s, i + 1) ELSE i

\* (?:,\d{3})* after s[e], greedy: the end of the last group
RECURSIVE CommaGroupsEnd(_, _)
CommaGroupsEnd(s, e) ==
    IF e + 4 <= Len(s) /\ s[e + 1] = "," /\ IsDigitChar(s[e + 2])
       /\ IsDigitChar(s[e + 3]) /\ IsDigitChar(s[e + 4])
    THEN CommaGroupsEnd(s, e + 4)
    ELSE e

StartsAt(s, i, sub) ==
    i >= 1 /\ i + Len(sub) - 1 <= Len(s) /\ SubSeq(s, i, i + Len(sub) - 1) = sub

Least(S) == CHOOSE x \in S : \A y \in S : x <= y

\* re.search(r'(\d+(?:\.\d+)?)\s*%', s): group 1 of the leftmost match,
\* <<>> without a match
PercentSearch(s) ==
    LET NumberEnd(i) ==
            LET e == DigitRunEnd(s, i)
                f == IF e < Len(s) /\ s[e + 1] = "."
                     THEN DigitRunEnd(s, e + 2) ELSE e
            IN IF f >= e + 2 THEN f ELSE e
        MatchesAt(i) ==
            /\ IsDigitChar(s[i])
            /\ LET p == SkipSpaces(s, NumberEnd(i) + 1)
               IN p <= Len(s) /\ s[p] = "%"
        starts == {i \in 1..Len(s) : MatchesAt(i)}
    IN IF starts = {} THEN <<>>
       ELSE SubSeq(s, Least(starts), NumberEnd(Least(starts)))

\* the four flat_patterns tried in order with re.search on s: the span
\* <<first, last>> of group 1 of the first pattern that matches, <<>> when
\* none does
FlatSearch(s) ==
    LET AmountEnd(k) == CommaGroupsEnd(s, Min(DigitRunEnd(s, k), k + 2))
        \* where the amount starts when marker (and an optional ".") is at s[i]
        AfterMarker(i, marker, dot) ==
            LET j == i + Len(marker)
            IN SkipSpaces(s, IF dot /\ j <= Len(s) /\ s[j] = "." THEN j + 1
                             ELSE j)
        PrefixStarts(marker, dot) ==
            {i \in 1..Len(s) :
                /\ StartsAt(s, i, marker)
                /\ AfterMarker(i, marker, dot) <= Len(s)
                /\ IsDigitChar(s[AfterMarker(i, marker, dot)])}
        PrefixSpan(marker, dot) ==
            LET k == AfterMarker(Least(PrefixStarts(marker, dot)), marker, dot)
            IN <<k, AmountEnd(k)>>
        SuffixEnd(i) == CommaGroupsEnd(s, DigitRunEnd(s, i))
        SuffixStarts ==
            {i \in 1..Len(s) :
                /\ IsDigitChar(s[i])
                /\ DigitRunEnd(s, i) <= i + 2
                /\ \E word \in {<<"o", "f", "f">>, <<"c", "a", "s", "h", "b", "a", "c", "k">>, <<"d", "i", "s", "c", "o", "u", "n", "t">>} :
                      StartsAt(s, SkipSpaces(s, SuffixEnd(i) + 1), word)}
    IN IF PrefixStarts(<<"₹">>, FALSE) # {} THEN PrefixSpan(<<"₹">>, FALSE)
       ELSE IF PrefixStarts(<<"r", "s">>, TRUE) # {}
       THEN PrefixSpan(<<"r", "s">>, TRUE)
       ELSE IF PrefixStarts(<<"i", "n", "r">>, FALSE) # {}
       THEN PrefixSpan(<<"i", "n", "r">>, FALSE)
       ELSE IF SuffixStarts # {}
       THEN <<Least(SuffixStarts), SuffixEnd(Least(SuffixStarts))>>
       ELSE <<>>

\* float(s) for digits with at most one "." and one digit after it, in
\* tenths
FloatValue(s) ==
    LET parts == StrSplit(s, ".")
    IN DigitsValue(parts[1]) * 10
       + (IF Len(parts) > 1 THEN DigitsValue(SubSeq(parts[2], 1, 1)) ELSE 0)

\* a text without a discount read as a flat amount of 1
DiscountInfoNeverZero(text, pct_match, match) ==
    IF pct_match # <<>>
    THEN [type |-> "percentage", value |-> FloatValue(pct_match)]
    ELSE IF match # <<>>
    THEN [type |-> "flat",
          value |-> FloatValue(StrRemove(SubSeq(text, match[1], match[2]),
                                         ","))]
    ELSE [type |-> "flat", value |-> 10]

\* the end of extract_discount_value: what it returns for the lower-cased
\* text, given the percentage match and the span of the flat match
DiscountInfo(text, pct_match, match) ==
    IF pct_match # <<>>
    THEN [type |-> "percentage", value |-> FloatValue(pct_match)]
    ELSE IF match # <<>>
    THEN [type |-> "flat",
          value |-> FloatValue(StrRemove(SubSeq(text, match[1], match[2]),
                                         ","))]
    ELSE [type |-> "flat", value |-> 0]

\* extract_discount_value(offer_text) of rag_platform_combo_retriever.py
extract_discount_value(offer_text) ==
    IF offer_text = <<>> THEN [type |-> "flat", value |-> 0]
    ELSE DiscountInfo(StrLower(offer_text),
                      PercentSearch(StrLower(offer_text)),
                      FlatSearch(StrLower(offer_text)))

\* current_price * (pct / 100)
PercentOf(current_price, pct) ==
    (current_price \div 1000) * pct + ((current_price % 1000) * pct) \div 1000

\* max(0, current_price)
ClampPrice(current_price) == IF current_price < 0 THEN 0 ELSE current_price

\* both lists of a pairing hold offers: `if payment_offers and general_offers`
EitherPresent(first, second) == first # <<>> \/ second # <<>>
BothPresent(first, second) == first # <<>> /\ second # <<>>

\* sum(...) of a sequence of numbers
RECURSIVE SumSeq(_)
SumSeq(s) == IF s = <<>> THEN 0 ELSE Head(s) + SumSeq(Tail(s))

\* offer.get("title", offer.get("offer", "Unknown"))
StepTitle(offer) ==
    OfferGet(offer, "title", OfferGet(offer, "offer", "Unknown"))

\* the step recorded for a discount of discount_amount that leaves
\* price_after
DiscountStep(offer, type, value, discount_amount, price_after) ==
    [offer |-> StepTitle(offer), type |-> type, value |-> value,
     discount_amount |-> discount_amount, price_after |-> price_after]

\* Step 1 of calculate_combo_price: the percentage discounts applied one
\* after the other to the running price; pct_offers holds <<offer, pct>>
RECURSIVE PercentageSteps(_, _)
PercentageStep(current_price, offer, pct, discount_amount, others) ==
    LET rest == PercentageSteps(current_price - discount_amount, others)
    IN [price |-> rest.price,
        steps |-> <<DiscountStep(offer, "percentage", pct, discount_amount,
                                 current_price - discount_amount)>>
                  \o rest.steps]
PercentageSteps(current_price, pct_offers) ==
    IF pct_offers = <<>> THEN [price |-> current_price, steps |-> <<>>]
    ELSE IF Head(pct_offers)[2] <= 0
    THEN PercentageSteps(current_price, Tail(pct_offers))
    ELSE PercentageStep(current_price, Head(pct_offers)[1],
                        Head(pct_offers)[2],
                        PercentOf(current_price, Head(pct_offers)[2]),
                        Tail(pct_offers))

\* the loop over offers at the head of calculate_combo_price: each offer
\* with its discount_info
DiscountInfos(offers) ==
    [i \in 1..Len(offers) |->
        <<offers[i],
          extract_discount_value(OfferGet(offers[i], "offer", <<>>))>>]

\* pct_offers and flat_offers: the <<offer, value>> of the offers of a type
PctOffers(infos) ==
    [k \in 1..Len(infos) |-> <<infos[k][1], infos[k][2].value>>]
OffersOfType(infos, percentage) ==
    PctOffers(SelectSeq(infos,
                        LAMBDA x : (x[2].type = "percentage") = percentage))

\* the same price computation with every discount applied where it stands
\* in the input
RECURSIVE InputOrderPrice(_, _)
InputOrderStep(current_price, info) ==
    IF info.value <= 0 THEN current_price
    ELSE IF info.type = "percentage"
    THEN current_price - PercentOf(current_price, info.value)
    ELSE current_price - ValueAsPrice(info.value)
InputOrderPrice(current_price, infos) ==
    IF infos = <<>> THEN current_price
    ELSE InputOrderPrice(InputOrderStep(current_price, Head(infos)[2]),
                         Tail(infos))
InputOrderResult(base_price, final_price) ==
    [original_price |-> base_price,
     final_price |-> final_price,
     total_savings |-> base_price - final_price,
     steps |-> <<>>]
calculate_combo_price_input_order(base_price, offers) ==
    InputOrderResult(base_price,
        ClampPrice(InputOrderPrice(base_price, DiscountInfos(offers))))

\* flat steps that each record the price left by the flat offers up to
\* their own
FlatStepsRunning(applied_flat, price_after) ==
    [k \in 1..Len(applied_flat) |->
        DiscountStep(applied_flat[k][1], "flat", applied_flat[k][2],
                     ValueAsPrice(applied_flat[k][2]),
                     price_after
                       + SumSeq([j \in 1..(Len(applied_flat) - k) |->
                                    ValueAsPrice(applied_flat[k + j][2])]))]

\* Step 2 of calculate_combo_price and its return: applied_flat holds the
\* flat offers of a value above 0, total_flat their sum
FlatSteps(applied_flat, price_after) ==
    [k \in 1..Len(applied_flat) |->
        DiscountStep(applied_flat[k][1], "flat", applied_flat[k][2],
                     ValueAsPrice(applied_flat[k][2]), price_after)]
ComboResult(base_price, final_price, steps) ==
    [original_price |-> base_price,
     final_price |-> final_price,
     total_savings |-> base_price - final_price,
     steps |-> steps]
ApplyFlat(base_price, step1, applied_flat, total_flat) ==
    IF total_flat > 0
    THEN ComboResult(base_price, ClampPrice(step1.price - total_flat),
                     step1.steps
                     \o FlatSteps(applied_flat, step1.price - total_flat))
    ELSE ComboResult(base_price, ClampPrice(step1.price), step1.steps)
FlatStage(base_price, step1, applied_flat) ==
    ApplyFlat(base_price, step1, applied_flat,
              SumSeq([k \in 1..Len(applied_flat) |->
                         ValueAsPrice(applied_flat[k][2])]))

\* calculate_combo_price(base_price, offers) of
\* rag_platform_combo_retriever.py
calculate_combo_price(base_price, offers) ==
    FlatStage(base_price,
              PercentageSteps(base_price,
                              OffersOfType(DiscountInfos(offers), TRUE)),
              SelectSeq(OffersOfType(DiscountInfos(offers), FALSE),
                        LAMBDA x : x[2] > 0))

\* re.search(r'[...]\s*(\d+(?:,\d+)?)', offer_text) of rag_combo_builder.py:
\* the positions where the character class and \s* match before a digit;
\* the class also holds U+201A, a character of no offer text here
CbFlatStarts(offer_text) ==
    {i \in 1..Len(offer_text) :
        /\ offer_text[i] \in {"â", "¹", "R", "s"}
        /\ SkipSpaces(offer_text, i + 1) <= Len(offer_text)
        /\ IsDigitChar(offer_text[SkipSpaces(offer_text, i + 1)])}
\* (\d+(?:,\d+)?) from offer_text[k] to the end e of its first digits
CbNumber(offer_text, k, e) ==
    SubSeq(offer_text, k,
           IF e < Len(offer_text) /\ offer_text[e + 1] = ","
              /\ DigitRunEnd(offer_text, e + 2) >= e + 2
           THEN DigitRunEnd(offer_text, e + 2)
           ELSE e)
CbFlatValue(offer_text, starts) ==
    IF starts # {}
    THEN FloatValue(StrRemove(
             CbNumber(offer_text, SkipSpaces(offer_text, Least(starts) + 1),
                 DigitRunEnd(offer_text,
                             SkipSpaces(offer_text, Least(starts) + 1))),
             ","))
    ELSE 0
CbValue(offer_text, pct_match) ==
    IF pct_match # <<>> THEN FloatValue(pct_match)
    ELSE CbFlatValue(offer_text, CbFlatStarts(offer_text))

\* extract_discount_value(offer_text, discount_type) of rag_combo_builder.py
cb_extract_discount_value(offer_text, discount_type) ==
    CbValue(offer_text,
            IF discount_type = "percentage" THEN PercentSearch(offer_text)
            ELSE <<>>)

\* the loop of calculate_combo_price of rag_combo_builder.py over offers:
\* the running price, the flat discounts summed so far and the steps, each
\* step as the fields its text is formatted from
RECURSIVE ComboLoop(_, _, _)
WithStep(title, type, value, reduction, rest) ==
    [rest EXCEPT !.steps = <<[title |-> title, type |-> type,
                              value |-> value, reduction |-> reduction]>>
                           \o @]
PercentageBranch(current_price, flat_discount, offer, discount_pct, reduction, others) ==
    IF discount_pct > 0
    THEN WithStep(offer.title, "percentage", discount_pct, reduction,
                  ComboLoop(current_price - reduction, flat_discount, others))
    ELSE ComboLoop(current_price, flat_discount, others)
FlatBranch(current_price, flat_discount, offer, discount_amt, others) ==
    IF discount_amt > 0
    THEN WithStep(offer.title, "flat", discount_amt,
                  ValueAsPrice(discount_amt),
                  ComboLoop(current_price,
                            flat_discount + ValueAsPrice(discount_amt), others))
    ELSE ComboLoop(current_price, flat_discount, others)
\* one pass of the loop: value is what extract_discount_value gave for the
\* offer's text, called with "percentage" or with "flat"
ComboPass(current_price, flat_discount, offer, percentage, value, others) ==
    IF percentage
    THEN PercentageBranch(current_price, flat_discount, offer, value,
                          PercentOf(current_price, value), others)
    ELSE FlatBranch(current_price, flat_discount, offer, value, others)
OfferPass(current_price, flat_discount, offer, percentage, others) ==
    ComboPass(current_price, flat_discount, offer, percentage,
              cb_extract_discount_value(
                  OfferGet(offer, "offer", <<>>),
                  IF percentage THEN "percentage" ELSE "flat"),
              others)
ComboLoop(current_price, flat_discount, offers) ==
    IF offers = <<>>
    THEN [price |-> current_price, flat |-> flat_discount, steps |-> <<>>]
    ELSE OfferPass(current_price, flat_discount, Head(offers),
                   OfferGet(Head(offers), "discount_type", "flat")
                       = "percentage",
                   Tail(offers))

\* the end of calculate_combo_price of rag_combo_builder.py
CbAfterLoop(base_price, loop) ==
    [original_price |-> base_price,
     final_price |-> ClampPrice(loop.price - loop.flat),
     total_savings |-> base_price - (loop.price - loop.flat),
     applied_steps |-> loop.steps]

\* calculate_combo_price(base_price, offers) of rag_combo_builder.py
cb_calculate_combo_price(base_price, offers) ==
    CbAfterLoop(base_price, ComboLoop(base_price, 0, offers))

\* one entry of combos
ComboEntry(type, combo_offers, price_result) ==
    [type |-> type,
     offers |-> combo_offers,
     original_price |-> price_result.original_price,
     final_price |-> price_result.final_price,
     total_savings |-> price_result.total_savings,
     breakdown |-> price_result.applied_steps]
Combo(type, combo_offers, base_price) ==
    ComboEntry(type, combo_offers,
               cb_calculate_combo_price(base_price, combo_offers))

\* the first combo of smallest total_savings
MinSavings(combos) ==
    combos[CHOOSE i \in 1..Len(combos) :
              /\ \A j \in 1..Len(combos) :
                    combos[j].total_savings >= combos[i].total_savings
              /\ \A j \in 1..(i - 1) :
                    combos[j].total_savings > combos[i].total_savings]

\* max(combos, key=...): the first combo of greatest total_savings
MaxSavings(combos) ==
    combos[CHOOSE i \in 1..Len(combos) :
              /\ \A j \in 1..Len(combos) :
                    combos[j].total_savings <= combos[i].total_savings
              /\ \A j \in 1..(i - 1) :
                    combos[j].total_savings < combos[i].total_savings]
BestOf(combos) ==
    IF combos # <<>>
    THEN [combos |-> combos, best_combo |-> MaxSavings(combos)]
    ELSE [combos |-> <<>>, best_combo |-> PyNone]

\* build_offer_combo(payment_offers, general_offers, gift_coupons,
\* base_price); the reasoning and recommendation texts are left out
build_offer_combo(payment_offers, general_offers, gift_coupons, base_price) ==
    BestOf((IF BothPresent(payment_offers, general_offers)
            THEN <<Combo("payment+general", payment_offers \o general_offers,
                         base_price)>>
            ELSE <<>>)
           \o (IF BothPresent(payment_offers, gift_coupons)
               THEN <<Combo("payment+gift", payment_offers \o gift_coupons,
                            base_price)>>
               ELSE <<>>))

\* max(offers, key=lambda o: extract_discount_value(...)["value"]): the
\* first offer of the greatest value
OfferValues(offers) ==
    [k \in 1..Len(offers) |->
        extract_discount_value(OfferGet(offers[k], "offer", <<>>)).value]
FirstMin(values) ==
    CHOOSE i \in 1..Len(values) :
        /\ \A j \in 1..Len(values) : values[j] >= values[i]
        /\ \A j \in 1..(i - 1) : values[j] > values[i]
FirstMax(values) ==
    CHOOSE i \in 1..Len(values) :
        /\ \A j \in 1..Len(values) : values[j] <= values[i]
        /\ \A j \in 1..(i - 1) : values[j] < values[i]
BestOffer(offers) == offers[FirstMax(OfferValues(offers))]

\* selected_offers of build_platform_combo: the best general offer, then
\* the best payment offer
SelectedOffers(go_offers, po_offers) ==
    (IF go_offers # <<>> THEN <<BestOffer(go_offers)>> ELSE <<>>)
    \o (IF po_offers # <<>> THEN <<BestOffer(po_offers)>> ELSE <<>>)

\* the combo build_platform_combo returns for the offers it selected;
\* discount_percentage is total_savings / original_price * 100, kept as
\* <<total_savings, original_price>>
PlatformCombo(platform, selected_offers, price_result) ==
    [platform |-> platform,
     base_price |-> price_result.original_price,
     final_price |-> price_result.final_price,
     total_savings |-> price_result.total_savings,
     discount_percentage |->
        IF price_result.original_price > 0
        THEN <<price_result.total_savings, price_result.original_price>>
        ELSE <<0, 1>>,
     offers_used |-> selected_offers,
     breakdown |-> price_result.steps]
NoOffersAvailable(platform, base_price) ==
    [platform |-> platform,
     base_price |-> base_price,
     final_price |-> base_price,
     total_savings |-> 0,
     offers_used |-> <<>>,
     breakdown |-> <<>>,
     error |-> "No offers available"]
ComboOfSelected(platform, base_price, selected_offers) ==
    IF selected_offers = <<>> THEN NoOffersAvailable(platform, base_price)
    ELSE PlatformCombo(platform, selected_offers,
                       calculate_combo_price(base_price, selected_offers))

\* build_platform_combo(platform, base_price, bank, card_type), with what
\* the two retrievers find for the platform: go_found by
\* get_platform_general_offers and po_found by get_platform_payment_offers,
\* which is called only with a bank and a card type
build_platform_combo(platform, base_price, bank, card_type, go_found, po_found) ==
    ComboOfSelected(platform, base_price,
        SelectedOffers(go_found,
                       IF Truthy(bank) /\ Truthy(card_type) THEN po_found
                       ELSE <<>>))

\* Offer texts
TextPct20 == <<"2", "0", "%", " ", "o", "f", "f">>
TextPct10Upto == <<"1", "0", "%", " ", "o", "f", "f", " ", "u", "p", " ", "t", "o", " ", "₹", "1", "0", "0", "0">>
TextPct150 == <<"1", "5", "0", "%", " ", "O", "F", "F">>
TextFlat50 == <<"₹", "5", "0", " ", "o", "f", "f">>
TextFlat500 == <<"F", "l", "a", "t", " ", "₹", "5", "0", "0", " ", "o", "f", "f">>
TextFreeMeal == <<"f", "r", "e", "e", " ", "m", "e", "a", "l">>
OfferTexts ==
    {<<>>, TextPct20, TextPct10Upto, TextPct150, TextFlat50, TextFlat500,
     <<"F", "l", "a", "t", " ", "1", "0", "%", " ", "o", "f", "f">>, <<"1", "2", ".", "5", "%", " ", "o", "f", "f">>, <<"₹", "5", ",", "0", "0", "0", " ", "o", "f", "f">>, <<"R", "s", ".", " ", "1", "0", "0", "0", " ", "c", "a", "s", "h", "b", "a", "c", "k">>,
     <<"I", "N", "R", " ", "5", "0", "0">>, <<"1", "0", "0", "0", " ", "o", "f", "f">>, TextFreeMeal}

\* an offer whose text holds no discount
MalformedOffer == [title |-> "malformed", offer |-> TextFreeMeal]
EmptyOffer == [title |-> "empty", offer |-> <<>>]

\* the offers the retrievers of rag_platform_combo_retriever.py return
OfferCatalog ==
    {[title |-> "pct20", offer |-> TextPct20],
     [title |-> "pct10", offer |-> TextPct10Upto],
     [title |-> "pct150", offer |-> TextPct150],
     [title |-> "flat50", offer |-> TextFlat50],
     [title |-> "flat500", offer |-> TextFlat500],
     MalformedOffer, EmptyOffer}

\* offers as rag_combo_builder.py takes them, with a discount_type
TypedOfferCatalog ==
    {[title |-> "pct20", offer |-> TextPct20, discount_type |-> "percentage"],
     [title |-> "pct10", offer |-> <<"1", "0", "%", " ", "o", "f", "f", " ", "u", "p", " ", "t", "o", " ", "R", "s", " ", "1", "0", "0", "0">>,
      discount_type |-> "percentage"],
     [title |-> "pct150", offer |-> TextPct150, discount_type |-> "percentage"],
     [title |-> "flat50", offer |-> <<"R", "s", " ", "5", "0", " ", "o", "f", "f">>],
     [title |-> "flat500", offer |-> <<"F", "l", "a", "t", " ", "R", "s", " ", "5", "0", "0", " ", "o", "f", "f">>,
      discount_type |-> "flat"]}

PaymentOffer ==
    [title |-> "payment", offer |-> <<"1", "0", "%", " ", "o", "f", "f", " ", "u", "p", " ", "t", "o", " ", "R", "s", " ", "1", "0", "0", "0">>,
     discount_type |-> "percentage"]
GeneralOffer ==
    [title |-> "general", offer |-> <<"F", "l", "a", "t", " ", "R", "s", " ", "5", "0", "0", " ", "o", "f", "f">>, discount_type |-> "flat"]
GiftCoupon ==
    [title |-> "gift", offer |-> <<"R", "s", " ", "5", "0", " ", "o", "f", "f">>, discount_type |-> "flat"]

\* the offers of each category build_offer_combo is given
PaymentOffers ==
    {PaymentOffer,
     [title |-> "payment", offer |-> TextPct20, discount_type |-> "percentage"]}
GeneralOffers == {GeneralOffer}
GiftCoupons ==
    {GiftCoupon,
     [title |-> "gift", offer |-> <<"R", "s", " ", "9", "0", "0", " ", "o", "f", "f">>, discount_type |-> "flat"]}

\* what the retrievers find for a platform, and for a bank and card type
GeneralFound ==
    {offer \in OfferCatalog : offer.title \in {"pct20", "flat50", "flat500"}}
PaymentFound ==
    {offer \in OfferCatalog : offer.title \in {"pct10", "pct150", "flat50"}}
Banks == {PyNone, PyStr(<<"H", "D", "F", "C">>)}
CardTypes == {PyStr(<<"c", "r", "e", "d", "i", "t">>)}
Platforms == {"MakeMyTrip"}

BasePrices == {Rupees(0), Rupees(1000), Rupees(7550)}

SeqsUpTo(S, n) == UNION {[1..m -> S] : m \in 0..n}

\* the calls of the discount functions
ComboCalls ==
    {[fn |-> "extract_discount_value", offer_text |-> t] : t \in OfferTexts}
    \cup {[fn |-> f, base_price |-> b, offers |-> o] :
            f \in {"calculate_combo_price"}, b \in BasePrices,
            o \in SeqsUpTo(OfferCatalog, MaxOffers)}
    \cup {[fn |-> f, base_price |-> b, offers |-> o] :
            f \in {"cb_calculate_combo_price"}, b \in BasePrices,
            o \in SeqsUpTo(TypedOfferCatalog, MaxOffers)}
    \cup {[fn |-> "build_offer_combo", payment_offers |-> p,
           general_offers |-> g, gift_coupons |-> c, base_price |-> b] :
            p \in SeqsUpTo(PaymentOffers, MaxCategory),
            g \in SeqsUpTo(GeneralOffers, MaxCategory),
            c \in SeqsUpTo(GiftCoupons, MaxCategory), b \in BasePrices}
    \cup {[fn |-> "build_platform_combo", platform |-> pf, base_price |-> b,
           bank |-> bk, card_type |-> ct, go_found |-> g, po_found |-> p] :
            pf \in Platforms, b \in BasePrices, bk \in Banks,
            ct \in CardTypes, g \in SeqsUpTo(GeneralFound, MaxCategory),
            p \in SeqsUpTo(PaymentFound, MaxCategory)}

\* one of the discount functions is called and returns
Returns(fn, value) ==
    /\ combo_call.fn = fn
    /\ combo_ret = Unset
    /\ combo_ret' = value
    /\ UNCHANGED <<combo_call, cacheVars, clientVars, keyVars, retryVars,
                   pipeVars,
                   callerVars>>

-----------------------------------------------------------------------------
(* Specifications                                                          *)

ClientIdle == cacheOp = NoCacheOp
KeyIdle == keyIn = <<>> /\ keyOut = <<>>
ComboIdle == combo_call = [fn |-> "none"] /\ combo_ret = Unset
CallersIdle ==
    /\ callers = [c \in Callers |-> IdleCaller]
    /\ mongo_client = PyNone
    /\ client_lock = "free"
    /\ clients = <<>>
RetryIdle ==
    /\ max_retries = 4 /\ initial_delay = 1 /\ max_delay = 8
    /\ wpc = "idle" /\ attempt = 0 /\ calls = 0 /\ excs = <<>>
    /\ delays = <<>> /\ fret = Unset /\ wret = Unset /\ wexc = NoException

(* -- the cache store under an arbitrary client *)

InitCache ==
    CacheInit /\ CallersIdle /\ ClientIdle /\ KeyIdle /\ RetryIdle /\ PipeInit /\ ComboIdle

ClockTick ==
    \E step \in TickSteps :
        Tick(step) /\ UNCHANGED <<clientVars, keyVars, comboVars, retryVars, pipeVars,
                   callerVars>>
DbFails == StoreFails /\ UNCHANGED <<clientVars, keyVars, comboVars, retryVars, pipeVars,
                   callerVars>>
DbRecovers == StoreRecovers /\ UNCHANGED <<clientVars, keyVars, comboVars, retryVars, pipeVars,
                   callerVars>>
ClientPut ==
    \E e \in ClientEntries :
        CachePut(e[1], e[2]) /\ UNCHANGED <<keyVars, comboVars, retryVars, pipeVars,
                   callerVars>>
ClientGet ==
    \E params \in ClientParams :
        CacheGet(params) /\ UNCHANGED <<keyVars, comboVars, retryVars, pipeVars,
                   callerVars>>
ClientBatchPut ==
    \E entries \in ClientBatches :
        \E bad \in BadSets(Len(entries)) :
            CacheBatchPut(entries, bad)
                /\ UNCHANGED <<keyVars, comboVars, retryVars, pipeVars,
                   callerVars>>

NextCache ==
    \/ ClockTick
    \/ DbFails
    \/ DbRecovers
    \/ ClientPut
    \/ ClientGet
    \/ ClientBatchPut

SpecCache == InitCache /\ [][NextCache]_vars

(* -- generate_cache_key on pairs of maps with the same entries *)

\* request-parameter maps of different requests: booking-token keys (the
\* token a string or a number of the search response), flight-search keys
\* and maps of at most one entry
SearchKeys ==
    {RequestKey([q EXCEPT !.departure_id = d, !.max_price = p], r) :
        q \in Queries, d \in {PyStr(<<"D", "E", "L">>), PyStr(<<"B", "O", "M">>)},
        p \in {PyNone, PyStr(<<"₹", "5", "0", "0">>), PyStr(<<"5", ",", "0", "0", "0">>)},
        r \in {PyNone, PyStr(<<"A", "I", ",", "6", "E">>), PyStr(<<"6", "E", ",", "A", "I">>)}}
BookingKeys ==
    {BookingKey(t) : t \in Tokens \cup {<<"3", "0", "0">>}}
        \cup {<< <<"booking_token", [kind |-> "int", n |-> n]>> >> : n \in {300, 500}}
KeyMaps == SearchKeys \cup BookingKeys \cup {d \in ParamDicts : Len(d) <= 1}

InitKey ==
    /\ CacheInit /\ CallersIdle /\ ClientIdle /\ RetryIdle /\ PipeInit /\ ComboIdle
    /\ keyOut = <<>>
    /\ \/ \E d \in ParamDicts :
            \E p \in Permutations(1..Len(d)), flip \in BOOLEAN :
                keyIn = <<d, Reordered(d, p, flip)>>
       \/ \E d1 \in KeyMaps : \E d2 \in KeyMaps \ {d1} : keyIn = <<d1, d2>>

KeyCompute == ComputeKeys /\ UNCHANGED <<retryVars, pipeVars, comboVars,
                   callerVars>>
KeyPutThenGet ==
    \E payload \in ClientPayloads : PutThenGet(payload)
            /\ UNCHANGED <<retryVars, pipeVars, comboVars,
                   callerVars>>

NextKey ==
    \/ KeyCompute
    \/ KeyPutThenGet

SpecKey == InitKey /\ [][NextKey]_vars

(* -- the retry wrapper around a function that fails or succeeds at will *)

RetryArgs == (-1)..MaxRetriesArg
InitialDelays == {1, 3}
MaxDelays == {2, 8}
Exceptions == {"e1", "e2"}
FuncValues == {PyStr(<<"v">>), PyNone}

InitRetry ==
    /\ CacheInit /\ CallersIdle /\ ClientIdle /\ KeyIdle /\ PipeInit /\ ComboIdle
    /\ \E retries \in RetryArgs, initial \in InitialDelays, maximum \in MaxDelays :
        WrapperReady(retries, initial, maximum)

RetryEnter == WrapperEnter /\ UNCHANGED <<cacheVars, clientVars, keyVars, comboVars, pipeVars,
                   callerVars>>
FuncReturns ==
    \E v \in FuncValues :
        WrapperOnReturn(v) /\ UNCHANGED <<cacheVars, clientVars, keyVars, comboVars, pipeVars,
                   callerVars>>
FuncRaises ==
    \E e \in Exceptions :
        WrapperOnRaise(e) /\ UNCHANGED <<cacheVars, clientVars, keyVars, comboVars, pipeVars,
                   callerVars>>

NextRetry ==
    \/ RetryEnter
    \/ FuncReturns
    \/ FuncRaises

SpecRetry == InitRetry /\ [][NextRetry]_vars

(* -- the aggregator: calls of get_flight_with_aggregator one after the    *)
(*    other, against the upstream APIs, the store and the clock; each of   *)
(*    its store operations either reaches the store (up) or fails          *)

Init ==
    CacheInit /\ CallersIdle /\ ClientIdle /\ KeyIdle /\ RetryIdle /\ PipeInit /\ ComboIdle

\* the exception the upstream search raises on the n-th invocation
SearchError(n) == IF n % 2 = 1 THEN "e1" ELSE "e2"

\* a call of the aggregator takes seconds and the clock counts minutes:
\* time passes between one call and the next, and starts at the first
Elapsed == IF requests = 0 THEN {0} ELSE {0} \cup TickSteps

Call == \E q \in Queries, step \in Elapsed : AggregatorCall(q, step)
GetFlights == \E up \in BOOLEAN : GetFlightsAttempt(up)
SearchOk ==
    \E outbound_flights \in SearchResponses, up \in BOOLEAN :
        SearchReturns(outbound_flights, up)
SearchFails == SearchRaises(SearchError(calls + 1))
CacheCheck ==
    \E i \in 1..Len(tasks), up \in BOOLEAN, e \in {NoException, "e1"} :
        CacheCheckSettles(i, up, e)
Detail ==
    \E j \in 1..Len(fetch_tasks) :
        \E booking_data \in DetailOutcomes(fetch_tasks[j].token), up \in BOOLEAN :
            \E bad \in UNION {BadSets(n) : n \in 0..Len(fetch_tasks)} :
                DetailSettles(j, booking_data, up, bad)

EnrichFails == EnrichmentRaises("e1")

Next ==
    \/ Call
    \/ GetFlightsEnter
    \/ GetFlights
    \/ AggregatorResume
    \/ SearchOk
    \/ SearchFails
    \/ CacheCheck
    \/ Detail
    \/ EnrichFails

Spec == Init /\ [][Next]_vars

\* the same with every started call of get_flights carried on: the wrapper
\* and get_flights run without waiting for anything but the store and the
\* upstream search, which answer or raise
FetchStep == GetFlightsEnter \/ GetFlights \/ SearchOk \/ SearchFails
SpecFetch == Spec /\ WF_vars(FetchStep)

(* -- the discount functions, each called once on arguments drawn from    *)
(*    ComboCalls                                                           *)

InitCombo ==
    /\ CacheInit /\ CallersIdle /\ ClientIdle /\ KeyIdle /\ RetryIdle /\ PipeInit
    /\ combo_call \in ComboCalls
    /\ combo_ret = Unset

ExtractDiscount ==
    Returns("extract_discount_value",
            extract_discount_value(combo_call.offer_text))

CalculateCombo ==
    Returns("calculate_combo_price",
            calculate_combo_price(combo_call.base_price, combo_call.offers))

CbCalculateCombo ==
    Returns("cb_calculate_combo_price",
            cb_calculate_combo_price(combo_call.base_price, combo_call.offers))

BuildOfferCombo ==
    Returns("build_offer_combo",
            build_offer_combo(combo_call.payment_offers,
                              combo_call.general_offers,
                              combo_call.gift_coupons, combo_call.base_price))

BuildPlatformCombo ==
    Returns("build_platform_combo",
            build_platform_combo(combo_call.platform, combo_call.base_price,
                                 combo_call.bank, combo_call.card_type,
                                 combo_call.go_found, combo_call.po_found))

NextCombo ==
    \/ ExtractDiscount
    \/ CalculateCombo
    \/ CbCalculateCombo
    \/ BuildOfferCombo
    \/ BuildPlatformCombo

SpecCombo == InitCombo /\ [][NextCombo]_vars

-----------------------------------------------------------------------------
(* Properties                                                              *)

\* C3 (retry bound). With max_retries >= 1: the wrapped function is invoked
\* again after each of its first max_retries - 1 failures; once it succeeds
\* after k failures it has been invoked k + 1 times and the wrapper returns
\* the value it returned; once it has failed max_retries times it has been
\* invoked max_retries times and the wrapper raises the exception of the
\* last invocation.
RetryBound ==
    (wpc # "idle" /\ max_retries >= 1) =>
        /\ calls <= max_retries
        /\ (Len(excs) < max_retries /\ fret = Unset) => wpc \in {"enter", "call"}
        /\ wpc = "call" => (calls = Len(excs) /\ attempt = calls)
        /\ wpc = "returned" =>
              /\ fret # Unset
              /\ wret = fret
              /\ Len(excs) <= max_retries - 1
              /\ calls = Len(excs) + 1
        /\ Len(excs) = max_retries => wpc = "raised"
        /\ wpc = "raised" =>
              /\ calls = max_retries
              /\ Len(excs) = max_retries
              /\ wexc = excs[max_retries]
              /\ wret = Unset

\* the wrapper raised after three failures whose last exception differs
\* from the first
RetryBoundWitness ==
    /\ wpc = "raised"
    /\ max_retries = 3
    /\ excs = <<"e1", "e1", "e2">>
    /\ wexc = "e2"

\* C4 (TTL correctness). A get that reaches the store, for a key whose
\* latest write was made at t0 with payload p, returns p iff
\* now - t0 < CACHE_TTL_MINUTES, and returns None (miss) when
\* now - t0 >= CACHE_TTL_MINUTES.
TTLCorrectness ==
    [][\A params \in ClientParams :
          (CacheGet(params) /\ dbUp) =>
              \A e \in putLog :
                  e.key = generate_cache_key(params) =>
                      /\ (cacheOp'.ret = e.data) <=> (now - e.at < CACHE_TTL_MINUTES)
                      /\ (now - e.at >= CACHE_TTL_MINUTES) => cacheOp'.ret = PyNone]_vars

\* a get exactly CACHE_TTL_MINUTES after the write has returned miss
TTLCorrectnessWitness ==
    /\ cacheOp.op = "get"
    /\ cacheOp.ret = PyNone
    /\ dbUp
    /\ \E e \in putLog :
          /\ e.key = generate_cache_key(cacheOp.params)
          /\ now - e.at = CACHE_TTL_MINUTES

\* the entries of a map as a set, nested maps included
RECURSIVE MapOf(_)
MapOf(d) ==
    {<<d[i][1],
       IF d[i][2].kind = "dict"
       THEN [kind |-> "map", m |-> MapOf(d[i][2].d)]
       ELSE d[i][2]>> : i \in 1..Len(d)}

\* C5 (key determinism). Two maps with the same entries (nested maps
\* included) get the same cache key whatever their insertion orders, and a
\* get under one is a hit for a put under the other.
KeyDeterminism ==
    (keyOut # <<>> /\ MapOf(keyIn[1]) = MapOf(keyIn[2])) =>
        /\ keyOut[1] = keyOut[2]
        /\ cacheOp.op = "get" =>
              \E e \in putLog :
                  /\ e.key = keyOut[1]
                  /\ cacheOp.ret = e.data

\* two maps in different insertion orders, one with a nested map reversed,
\* got their keys and the get under the second hit
KeyDeterminismWitness ==
    /\ keyOut # <<>>
    /\ Len(keyIn[1]) = 2
    /\ keyIn[1][1] = keyIn[2][2]
    /\ keyIn[2][1][2].kind = "dict"
    /\ Len(keyIn[2][1][2].d) = 2
    /\ keyIn[1][2] = <<keyIn[2][1][1], PyDict(Reverse(keyIn[2][1][2].d))>>
    /\ cacheOp.op = "get"
    /\ cacheOp.ok


-----------------------------------------------------------------------------
(* Properties of the aggregator                                            *)

\* the tasks at the given positions that have settled
Settled(ts) == {i \in 1..Len(ts) : ts[i].done}

\* the detail results the enrich functions skip: None (the call raised) and
\* the empty response
FailedDetails == {PyNone, DetailEmpty}

\* the positions of fetch_tasks whose detail call failed
FailedFetches == {j \in 1..Len(fetch_tasks) : fetch_tasks[j].result \in FailedDetails}

\* the documents of the store that answer the query in progress and are
\* younger than the TTL
FreshFlights ==
    {doc \in store :
        /\ \E n \in map_airlines(query.include_airlines) :
               doc.cache_key = generate_cache_key(RequestKey(query, n))
        /\ now - doc.cached_at < CACHE_TTL_MINUTES}

\* C1: in the cache-checked path (is_cached) every upstream detail call is
\* for a flight whose token had its cache check settled first, and every
\* token-carrying flight is checked; in the no-cache path no cache check is
\* made at all.
StrategySelection ==
    /\ ~is_cached => (nChecks = 0 /\ tasks = <<>>)
    /\ (is_cached /\ (fetch_tasks # <<>> \/ nDetail > 0)) =>
          /\ nChecks = Len(tasks)
          /\ \A j \in 1..Len(fetch_tasks) :
                \E i \in 1..Len(tasks) :
                    /\ tasks[i].flight = fetch_tasks[j].flight
                    /\ tasks[i].token = fetch_tasks[j].token
                    /\ tasks[i].done
    /\ (is_cached /\ pc = "returned" /\ all_flights.items # <<>>) =>
          nChecks = Len(tasks)

StrategySelectionWitness ==
    /\ is_cached
    /\ pc = "fetch"
    /\ nChecks = 2
    /\ Len(fetch_tasks) = 1
    /\ nDetail = 0

\* C2: when enrich has returned, with N token-carrying flights of which M
\* failed their detail call (None or an empty response), the result holds
\* exactly N - M entries, the batch holds exactly the entries of the
\* fetched tokens, every usable detail result is in the result whatever
\* its siblings did, nothing is raised, and the batch is written once iff
\* it is not empty; with M = N or N = 0 the result is empty and no batch is
\* written.
FailOpenEnrichment ==
    pc = "returned" =>
        LET N == IF is_cached THEN Len(tasks) ELSE Len(fetch_tasks)
            M == Cardinality(FailedFetches)
            fetched == (1..Len(fetch_tasks)) \ FailedFetches
        IN /\ aggExc = NoException
           /\ result.kind = "list"
           /\ Len(result.items) = N - M
           /\ Len(cache_batch) = Len(fetch_tasks) - M
           /\ \A j \in fetched :
                 /\ \E k \in 1..Len(result.items) :
                        result.items[k] = EnrichedFlight(fetch_tasks[j].result)
                 /\ \E k \in 1..Len(cache_batch) :
                        cache_batch[k] = <<BookingKey(fetch_tasks[j].token),
                                           fetch_tasks[j].result>>
           /\ \A k \in 1..Len(cache_batch) :
                 \E j \in fetched :
                     cache_batch[k] = <<BookingKey(fetch_tasks[j].token),
                                        fetch_tasks[j].result>>
           /\ nBatch = IF cache_batch = <<>> THEN 0 ELSE 1
           /\ (M = N \/ N = 0) => (result.items = <<>> /\ nBatch = 0)

FailOpenEnrichmentWitness ==
    /\ pc = "returned"
    /\ ~is_cached
    /\ Len(fetch_tasks) = 2
    /\ fetch_tasks[1].result = PyNone
    /\ fetch_tasks[2].result = DetailOk(fetch_tasks[2].token)
    /\ Len(result.items) = 1
    /\ nBatch = 1

\* C6: an invocation of get_flights whose cache read reaches the store
\* while the store holds a fresh entry for the query's normalized
\* parameters returns (that entry's data, True) and makes neither an
\* upstream search call nor a cache write.
FetchOnCacheHit ==
    [][(pc = "get_flights" /\ wpc = "call" /\ FreshFlights # {}
        /\ GetFlightsAttempt(TRUE)) =>
          /\ pc' = "got_flights"
          /\ wpc' = "returned"
          /\ \E doc \in FreshFlights : wret' = PyTuple(<<doc.data, TRUE>>)
          /\ nSearch' = nSearch
          /\ nSave' = nSave
          /\ store' = store
          /\ putLog' = putLog]_vars

FetchOnCacheHitWitness ==
    /\ pc = "got_flights"
    /\ wret = PyTuple(<<PyList(<<FlightB, FlightA>>), TRUE>>)
    /\ nSearch = 0
    /\ nSave = 0
    /\ FreshFlights # {}

\* the write a successful upstream search is followed by, and the hit a
\* later identical fetch gets from it
SearchResultCached(outbound_flights, up) ==
    /\ nSave' = nSave + 1
    /\ up =>
          /\ \E doc \in store' :
                /\ doc.cache_key = generate_cache_key(req_key)
                /\ doc.data = PyList(outbound_flights)
                /\ doc.cached_at = now
          /\ \E e \in putLog' :
                /\ e.key = generate_cache_key(req_key)
                /\ e.data = PyList(outbound_flights)
                /\ e.at = now

LaterFetchHits ==
    (pc = "get_flights" /\ wpc = "call" /\ GetFlightsAttempt(TRUE)) =>
        \A e \in putLog :
            ((\E n \in map_airlines(query.include_airlines) :
                  e.key = generate_cache_key(RequestKey(query, n)))
             /\ now - e.at < CACHE_TTL_MINUTES)
            => (pc' = "got_flights" /\ wret' = PyTuple(<<e.data, TRUE>>))

\* C7 as stated: every result list of a successful upstream search, the
\* empty one included, is written to the cache and returned as
\* (results, False), and an identical fetch within the TTL then hits.
FetchOnCacheMissEveryList ==
    [][/\ pc = "search" =>
             \A outbound_flights \in SearchResponses, up \in BOOLEAN :
                 SearchReturns(outbound_flights, up) =>
                     /\ wret' = PyTuple(<<PyList(outbound_flights), FALSE>>)
                     /\ SearchResultCached(outbound_flights, up)
       /\ LaterFetchHits]_vars

\* C7 amended: every non-empty result list of a successful upstream
\* search is written to the cache under the normalized parameters and
\* returned as (results, False), and an identical fetch that reaches the
\* store within the TTL then returns (results, True); an empty result list
\* is returned as ([], False) and is not written.
FetchOnCacheMiss ==
    [][/\ pc = "search" =>
             \A outbound_flights \in SearchResponses, up \in BOOLEAN :
                 SearchReturns(outbound_flights, up) =>
                     /\ wret' = PyTuple(<<PyList(outbound_flights), FALSE>>)
                     /\ outbound_flights # <<>> =>
                            SearchResultCached(outbound_flights, up)
                     /\ outbound_flights = <<>> =>
                            (nSave' = nSave /\ store' = store /\ putLog' = putLog)
       /\ LaterFetchHits]_vars

FetchOnCacheMissWitness ==
    /\ requests = 2
    /\ pc = "got_flights"
    /\ now = CACHE_TTL_MINUTES - 1
    /\ \E e \in putLog :
          /\ e.at = 0
          /\ e.key = generate_cache_key(req_key)
          /\ wret = PyTuple(<<e.data, TRUE>>)

\* C8: when all GF_MAX_RETRIES upstream search attempts of a call have
\* failed, get_flights has raised the last attempt's exception, the
\* aggregator has raised it too, no result was returned and nothing was
\* written to the cache.
SearchExhaustion ==
    /\ Len(excs) = GF_MAX_RETRIES => pc = "raised"
    /\ pc = "raised" =>
          /\ wpc = "raised"
          /\ calls = GF_MAX_RETRIES
          /\ nSearch = GF_MAX_RETRIES
          /\ wexc = excs[GF_MAX_RETRIES]
          /\ aggExc = wexc
          /\ wret = Unset
          /\ result = Unset
          /\ nSave = 0 /\ nBatch = 0 /\ nDetail = 0
    /\ pc \in {"returned", "got_flights", "check", "fetch"} => aggExc = NoException

SearchExhaustionWitness ==
    /\ pc = "raised"
    /\ excs = <<"e1", "e2", "e1", "e2">>
    /\ aggExc = "e2"
    /\ store = {}

\* C9: in the cache-checked path the upstream detail calls are exactly the
\* flights whose cache check missed (or raised), in order; a flight whose check hit is
\* assembled from the cached payload, gets no detail call and is not in
\* the batch.
CachePartition ==
    (is_cached /\ pc \in {"fetch", "returned"}) =>
        LET missed == {i \in 1..Len(tasks) : tasks[i].result = PyNone \/ tasks[i].result.kind = "exception"}
            hit == (1..Len(tasks)) \ missed
        IN /\ Len(fetch_tasks) = Cardinality(missed)
           /\ \A i \in missed :
                 \E j \in 1..Len(fetch_tasks) :
                     /\ fetch_tasks[j].flight = tasks[i].flight
                     /\ fetch_tasks[j].token = tasks[i].token
           /\ \A i \in hit :
                 /\ \A j \in 1..Len(fetch_tasks) :
                        fetch_tasks[j].flight # tasks[i].flight
                 /\ \E k \in 1..Len(enriched_flights) :
                        enriched_flights[k] = EnrichedFlight(tasks[i].result)
           /\ \A j, k \in 1..Len(fetch_tasks) :
                 j < k => fetch_tasks[j].flight < fetch_tasks[k].flight
           /\ nDetail <= Cardinality(missed)
           /\ Len(cache_batch) <= Cardinality(missed)
           /\ pc = "returned" =>
                 Len(result.items) = Cardinality(hit) + Len(cache_batch)

CachePartitionWitness ==
    /\ is_cached
    /\ pc = "returned"
    /\ Len(tasks) = 2
    /\ tasks[1].result = PyNone
    /\ tasks[2].result # PyNone
    /\ nDetail = 1
    /\ Len(cache_batch) = 1

\* C10: no upstream detail call is launched before every cache check has
\* settled, the enrich call returns only after every detail call has
\* settled, failed ones included, and the cache is written by at most one
\* batch, after every detail call has settled.
PhaseOrdering ==
    /\ nChecks = Cardinality(Settled(tasks))
    /\ nDetail = Cardinality(Settled(fetch_tasks))
    /\ (fetch_tasks # <<>> /\ is_cached) => Settled(tasks) = 1..Len(tasks)
    /\ pc = "check" => (fetch_tasks = <<>> /\ nDetail = 0 /\ nBatch = 0)
    /\ pc = "fetch" => nBatch = 0
    /\ nBatch <= 1
    /\ nBatch = 1 => Settled(fetch_tasks) = 1..Len(fetch_tasks)
    /\ pc = "returned" =>
          /\ Settled(tasks) = 1..Len(tasks)
          /\ Settled(fetch_tasks) = 1..Len(fetch_tasks)

PhaseOrderingWitness ==
    /\ is_cached
    /\ pc = "fetch"
    /\ Len(fetch_tasks) = 2
    /\ fetch_tasks[2].done
    /\ fetch_tasks[2].result = PyNone
    /\ ~fetch_tasks[1].done

\* filtered_flights of the call in progress, as the aggregator computes it
FilteredFlights ==
    SelectSeq(IF Truthy(all_flights) THEN all_flights.items ELSE <<>>,
              LAMBDA f : is_flight_under_budget(f, query.max_price))

\* the flight has a booking_token entry whose value is a non-empty string
HasToken(flight) ==
    \E k \in 1..Len(flight.d) :
        /\ flight.d[k][1] = "booking_token"
        /\ flight.d[k][2].kind = "str"
        /\ flight.d[k][2].s # <<>>

TokenOf(flight) ==
    (CHOOSE kv \in {flight.d[k] : k \in 1..Len(flight.d)} :
        kv[1] = "booking_token")[2].s

\* C11: a search result without a token (absent or empty) is dropped on
\* both enrichment paths: the tasks launched are exactly those of the
\* token-carrying results, in order, as if the tokenless ones were not in
\* the input; no cache check, detail call, output element or batch entry
\* exists for a tokenless result, and nothing is raised.
TokenlessDropped ==
    (pc \in {"check", "fetch", "returned"} /\ all_flights # PyNone) =>
        LET carrying == SelectSeq(FilteredFlights, HasToken)
            launched == IF is_cached THEN tasks ELSE fetch_tasks
        IN /\ Len(launched) = Len(carrying)
           /\ \A k \in 1..Len(launched) :
                 /\ k <= Len(carrying)
                 /\ launched[k].token = TokenOf(carrying[k])
                 /\ launched[k].flight <= Len(FilteredFlights)
                 /\ FilteredFlights[launched[k].flight] = carrying[k]
           /\ \A k \in 1..Len(fetch_tasks) :
                 /\ fetch_tasks[k].flight <= Len(FilteredFlights)
                 /\ HasToken(FilteredFlights[fetch_tasks[k].flight])
           /\ nChecks <= Len(carrying)
           /\ nDetail <= Len(carrying)
           /\ Len(cache_batch) <= Len(carrying)
           /\ pc = "returned" => Len(result.items) <= Len(carrying)
           /\ aggExc = NoException

TokenlessDroppedWitness ==
    /\ pc = "returned"
    /\ all_flights # PyNone
    /\ FilteredFlights = <<FlightA, FlightNoToken>>
    /\ ~is_cached
    /\ Len(fetch_tasks) = 1
    /\ nDetail = 1
    /\ Len(result.items) = 1
    /\ Len(cache_batch) = 1

\* C12: a get that finds a stale entry deletes it and returns a miss, and
\* the store then holds no entry for that key; a get that hits or finds
\* nothing leaves the store unchanged; a get never adds an entry and never
\* touches an entry stored under another key.
GetFrame ==
    [][\A params \in ClientParams :
          CacheGet(params) =>
              LET k == generate_cache_key(params)
                  found == {doc \in store : doc.cache_key = k}
                  stale == /\ dbUp
                           /\ \E doc \in found :
                                 now - doc.cached_at >= CACHE_TTL_MINUTES
              IN /\ stale => /\ cacheOp'.ret = PyNone
                             /\ {doc \in store' : doc.cache_key = k} = {}
                 /\ ~stale => store' = store
                 /\ store' \subseteq store
                 /\ \A doc \in store : doc.cache_key # k => doc \in store'
                 /\ UNCHANGED <<nextId, putLog>>]_vars

GetFrameWitness ==
    /\ cacheOp.op = "get"
    /\ cacheOp.ret = PyNone
    /\ dbUp
    /\ store # {}
    /\ \E e \in putLog :
          /\ e.key = generate_cache_key(cacheOp.params)
          /\ now - e.at >= CACHE_TTL_MINUTES
          /\ \A doc \in store : doc.cache_key # e.key

\* C13: after failed attempt k that is not the last one the wrapper waits
\* exactly min(initial_delay * 2^k, max_delay); the delays are
\* non-decreasing and never exceed max_delay; no delay follows the final
\* failed attempt; with the defaults 4 / 1 / 8 the delays are 1, 2, 4.
BackoffSchedule ==
    /\ Len(delays) = IF wpc = "raised" THEN Len(excs) - 1 ELSE Len(excs)
    /\ max_retries > 0 => Len(delays) <= max_retries - 1
    /\ \A i \in 1..Len(delays) :
          /\ delays[i] = IF initial_delay * Pow2(i - 1) <= max_delay
                         THEN initial_delay * Pow2(i - 1)
                         ELSE max_delay
          /\ delays[i] <= max_delay
          /\ i > 1 => delays[i - 1] <= delays[i]
    /\ (wpc = "raised" /\ max_retries = 4 /\ initial_delay = 1
        /\ max_delay = 8) => delays = <<1, 2, 4>>

BackoffScheduleWitness ==
    /\ wpc = "raised"
    /\ max_retries = 4
    /\ initial_delay = 1
    /\ max_delay = 8
    /\ Len(excs) = 4
    /\ delays = <<1, 2, 4>>

\* C14: an upstream detail call that raises is retried like the search
\* call: a token is dropped because its detail call raised only after
\* GF_MAX_RETRIES calls were made for it.
DetailRetriedBeforeDrop ==
    \A j \in 1..Len(fetch_tasks) :
        (fetch_tasks[j].done /\ fetch_tasks[j].result = PyNone) =>
            fetch_tasks[j].attempts = GF_MAX_RETRIES

\* C15: a failed cache write is not fatal. When the write after a
\* successful upstream search fails, get_flights returns (results, False)
\* as it does when the write succeeds, raises nothing and the search is not
\* called again; when the trailing batch write fails, the enrich call
\* returns the same enriched list and raises nothing; once get_flights has
\* returned, the request never goes back to the upstream search.
WriteFailureNonFatal ==
    [][/\ pc = "search" =>
            \A outbound_flights \in SearchResponses :
                SearchReturns(outbound_flights, FALSE) =>
                    /\ wpc' = "returned"
                    /\ wret' = PyTuple(<<PyList(outbound_flights), FALSE>>)
                    /\ UNCHANGED <<store, nSearch, excs, wexc, aggExc>>
       /\ pc = "fetch" =>
            \A j \in 1..Len(fetch_tasks) :
                \A booking_data \in DetailOutcomes(fetch_tasks[j].token) :
                    DetailSettles(j, booking_data, FALSE,
                                  NoneBad(Len(CacheBatchOf(fetch_tasks')))) =>
                        /\ nDetail' = nDetail + 1
                        /\ UNCHANGED <<store, aggExc>>
                        /\ pc' = "returned" =>
                             LET usable ==
                                     SelectSeq(fetch_tasks',
                                         LAMBDA t : t.result \notin
                                                      {PyNone, DetailEmpty})
                             IN result' =
                                    PyList(enriched_flights \o
                                        [k \in 1..Len(usable) |->
                                            EnrichedFlight(usable[k].result)])
       /\ pc \in {"got_flights", "check", "fetch"} =>
            /\ pc' \notin {"get_flights", "search", "raised"}
            /\ nSearch' <= nSearch]_vars

WriteFailureNonFatalWitness ==
    /\ pc = "returned"
    /\ ~is_cached
    /\ Truthy(all_flights)
    /\ nBatch = 1
    /\ cache_batch # <<>>
    /\ store = {}
    /\ Len(result.items) = Len(cache_batch)
    /\ aggExc = NoException

\* C16: a batch write tolerates partial failure. After a batch put that
\* reached the store, every entry the server did not reject is stored
\* under its own key with its request parameters, the time of the batch
\* and its payload (the payload of one of the written entries of that key
\* when the batch names the key more than once), wherever the rejected
\* entries stand in the batch.
BatchPartialFailure ==
    [][(cacheOp'.op = "batch" /\ dbUp /\ UNCHANGED <<now, dbUp>>) =>
          LET entries == cacheOp'.params
              written == {i \in 1..Len(entries) : ~cacheOp'.bad[i]}
          IN \A i \in written :
                \E doc \in store' :
                    /\ doc.cache_key = generate_cache_key(entries[i][1])
                    /\ doc.request_params = entries[i][1]
                    /\ doc.cached_at = now
                    /\ \E k \in written :
                          /\ entries[k][1] = entries[i][1]
                          /\ doc.data = entries[k][2]
                    /\ \A other \in store' :
                          other.cache_key = doc.cache_key => other = doc]_vars

BatchPartialFailureWitness ==
    /\ cacheOp.op = "batch"
    /\ dbUp
    /\ Len(cacheOp.params) = 2
    /\ cacheOp.bad = <<TRUE, FALSE>>
    /\ cacheOp.params[1][1] # cacheOp.params[2][1]
    /\ \A doc \in store :
          doc.cache_key # generate_cache_key(cacheOp.params[1][1])
    /\ \E doc \in store :
          /\ doc.cache_key = generate_cache_key(cacheOp.params[2][1])
          /\ doc.data = cacheOp.params[2][2]
          /\ doc.cached_at = now


-----------------------------------------------------------------------------
(* Discounts                                                               *)

\* what each offer of the catalogs is worth, by its title: a percentage in
\* tenths, or a flat amount as a price
PercentOfTitle(title) ==
    CASE title = "pct20" -> 200
      [] title = "pct10" -> 100
      [] title = "pct150" -> 1500
      [] OTHER -> 0
FlatOfTitle(title) ==
    CASE title = "flat50" -> Rupees(50)
      [] title = "flat500" -> Rupees(500)
      [] OTHER -> 0

\* the prices after each percentage of pcts is taken, one after the other,
\* from the price the one before left
RECURSIVE RunningPrices(_, _)
RunningPrices(price, pcts) ==
    IF pcts = <<>> THEN <<>>
    ELSE LET after == price - PercentOf(price, Head(pcts))
         IN <<after>> \o RunningPrices(after, Tail(pcts))

PercentTitles(offers) ==
    SelectSeq([k \in 1..Len(offers) |-> offers[k].title],
              LAMBDA t : PercentOfTitle(t) > 0)
PercentsOf(offers) ==
    [k \in 1..Len(PercentTitles(offers)) |->
        PercentOfTitle(PercentTitles(offers)[k])]
FlatSumOf(offers) ==
    SumSeq([k \in 1..Len(offers) |-> FlatOfTitle(offers[k].title)])

\* the price left by the percentages of offers, in input order, and then by
\* the flat amounts together
SequencedPrice(base_price, offers) ==
    LET running == RunningPrices(base_price, PercentsOf(offers))
    IN (IF running = <<>> THEN base_price ELSE running[Len(running)])
       - FlatSumOf(offers)

IsComboPriceCall ==
    /\ combo_call.fn \in {"calculate_combo_price", "cb_calculate_combo_price"}
    /\ combo_ret # Unset

AtLeastZero(price) == IF price < 0 THEN 0 ELSE price

PriceClampOnExcess ==
    (IsComboPriceCall /\ combo_call.base_price >= 0) =>
        LET offers == combo_call.offers
            running == RunningPrices(combo_call.base_price, PercentsOf(offers))
            after_percentages ==
                IF running = <<>> THEN combo_call.base_price
                ELSE running[Len(running)]
        IN /\ combo_ret.final_price >= 0
           /\ ((\E k \in 1..Len(offers) : PercentOfTitle(offers[k].title) > 1000)
               \/ FlatSumOf(offers) > after_percentages)
                => combo_ret.final_price = 0


\* the amount written in text around the span a flat pattern matched: the
\* whole run of digits and commas the span lies in
RECURSIVE AmountStart(_, _)
AmountStart(text, i) ==
    IF i > 1 /\ (IsDigitChar(text[i - 1]) \/ text[i - 1] = ",")
    THEN AmountStart(text, i - 1) ELSE i
RECURSIVE AmountEnd(_, _)
AmountEnd(text, i) ==
    IF i < Len(text) /\ (IsDigitChar(text[i + 1]) \/ text[i + 1] = ",")
    THEN AmountEnd(text, i + 1) ELSE i
WrittenAmount(text, span) ==
    FloatValue(StrRemove(SubSeq(text, AmountStart(text, span[1]),
                                AmountEnd(text, span[2])), ","))

\* C19: extract_discount_value gives {percentage, N} for a text with a
\* percentage pattern N% (whether or not it also holds a flat-currency
\* pattern), {flat, amount} with the amount written in the text for a text
\* with only a flat-currency pattern, and {flat, 0} for an empty text or a
\* text with neither pattern.
ExtractPrecedence ==
    (combo_call.fn = "extract_discount_value" /\ combo_ret # Unset) =>
        LET text == StrLower(combo_call.offer_text)
            pct == PercentSearch(text)
            flat == FlatSearch(text)
        IN IF pct # <<>>
           THEN combo_ret = [type |-> "percentage", value |-> FloatValue(pct)]
           ELSE IF flat # <<>>
           THEN combo_ret = [type |-> "flat",
                             value |-> WrittenAmount(text, flat)]
           ELSE combo_ret = [type |-> "flat", value |-> 0]


TitlesOf(offers) == {offers[k].title : k \in 1..Len(offers)}

\* C20: build_offer_combo never builds or returns a combo that pairs a
\* general offer with a gift coupon: every combo it builds holds a payment
\* offer and offers of one other category only, the best combo is one of
\* them, and with no payment offer it builds no combo and returns None as
\* the best combo, whatever the general offers and gift coupons are.
ComboExclusion ==
    (combo_call.fn = "build_offer_combo" /\ combo_ret # Unset) =>
        /\ \A k \in 1..Len(combo_ret.combos) :
              LET combo == combo_ret.combos[k]
              IN /\ combo.type \in {"payment+general", "payment+gift"}
                 /\ "payment" \in TitlesOf(combo.offers)
                 /\ ~({"general", "gift"} \subseteq TitlesOf(combo.offers))
        /\ combo_ret.best_combo # PyNone =>
              \E k \in 1..Len(combo_ret.combos) :
                  combo_ret.best_combo = combo_ret.combos[k]
        /\ combo_call.payment_offers = <<>> =>
              /\ combo_ret.combos = <<>>
              /\ combo_ret.best_combo = PyNone

ComboExclusionWitness ==
    /\ combo_call.fn = "build_offer_combo"
    /\ combo_call.payment_offers = <<>>
    /\ combo_call.general_offers = <<GeneralOffer>>
    /\ combo_call.gift_coupons = <<GiftCoupon, GiftCoupon>>
    /\ combo_call.base_price = Rupees(7550)
    /\ combo_ret # Unset
    /\ combo_ret.best_combo = PyNone


IsBuildOfferCombo == combo_call.fn = "build_offer_combo" /\ combo_ret # Unset
IsBuildPlatformCombo ==
    combo_call.fn = "build_platform_combo" /\ combo_ret # Unset

\* the payment offers build_platform_combo asks for
PoOffersAsked ==
    IF Truthy(combo_call.bank) /\ Truthy(combo_call.card_type)
    THEN combo_call.po_found ELSE <<>>

\* the pairings of build_offer_combo whose two categories are populated
PopulatedPairings ==
    (IF combo_call.payment_offers # <<>> /\ combo_call.general_offers # <<>>
     THEN <<"payment+general">> ELSE <<>>)
    \o (IF combo_call.payment_offers # <<>> /\ combo_call.gift_coupons # <<>>
        THEN <<"payment+gift">> ELSE <<>>)

\* build_offer_combo builds the populated pairings, each with the savings
\* of calculate_combo_price over its offers, and returns as the best one a
\* pairing no other pairing saves more than; without a populated pairing it
\* returns None
BestPairingOfBuilder ==
    IsBuildOfferCombo =>
        /\ [k \in 1..Len(combo_ret.combos) |-> combo_ret.combos[k].type]
              = PopulatedPairings
        /\ \A k \in 1..Len(combo_ret.combos) :
              combo_ret.combos[k].total_savings
                = cb_calculate_combo_price(combo_call.base_price,
                      combo_ret.combos[k].offers).total_savings
        /\ IF PopulatedPairings = <<>> THEN combo_ret.best_combo = PyNone
           ELSE /\ \E k \in 1..Len(combo_ret.combos) :
                      combo_ret.best_combo = combo_ret.combos[k]
                /\ \A k \in 1..Len(combo_ret.combos) :
                      combo_ret.combos[k].total_savings
                        <= combo_ret.best_combo.total_savings

\* C21 as stated: of the allowed pairings whose two categories are both
\* populated the builders return the one of greatest total savings, and
\* when no pairing has both categories populated (only general offers, for
\* instance) they return none, never a combo of a single category.
SelectBestPairing ==
    /\ BestPairingOfBuilder
    /\ IsBuildPlatformCombo =>
          IF combo_call.go_found # <<>> /\ PoOffersAsked # <<>>
          THEN Len(combo_ret.offers_used) = 2
          ELSE /\ combo_ret.offers_used = <<>>
               /\ "error" \in DOMAIN combo_ret

\* C21, amended: build_offer_combo returns the populated pairing of
\* greatest total savings and None without one; build_platform_combo builds
\* its combo from every populated category of general and payment, so from
\* one category alone when only that one is populated, with the price and
\* savings of calculate_combo_price over the offers used, and gives the
\* result "No offers available" (final price the base price, savings 0)
\* only when both categories are empty.
SelectBestResult ==
    /\ BestPairingOfBuilder
    /\ IsBuildPlatformCombo =>
          /\ Len(combo_ret.offers_used)
                = (IF combo_call.go_found # <<>> THEN 1 ELSE 0)
                  + (IF PoOffersAsked # <<>> THEN 1 ELSE 0)
          /\ "error" \in DOMAIN combo_ret
                <=> (combo_call.go_found = <<>> /\ PoOffersAsked = <<>>)
          /\ combo_ret.offers_used = <<>> =>
                /\ combo_ret.final_price = combo_call.base_price
                /\ combo_ret.total_savings = 0
          /\ combo_ret.offers_used # <<>> =>
                /\ combo_ret.final_price
                     = AtLeastZero(SequencedPrice(combo_call.base_price,
                                                  combo_ret.offers_used))
                /\ combo_ret.total_savings
                     = combo_call.base_price - combo_ret.final_price

SelectBestResultWitness ==
    /\ IsBuildOfferCombo
    /\ combo_call.base_price = Rupees(7550)
    /\ combo_call.payment_offers = <<PaymentOffer>>
    /\ combo_call.general_offers = <<GeneralOffer>>
    /\ Len(combo_call.gift_coupons) = 1
    /\ combo_call.gift_coupons[1] # GiftCoupon
    /\ Len(combo_ret.combos) = 2
    /\ combo_ret.combos[1].total_savings = Rupees(1255)
    /\ combo_ret.best_combo.type = "payment+gift"
    /\ combo_ret.best_combo.total_savings = Rupees(1655)


\* the value extract_discount_value reads from the text of a catalog
\* offer, percentage or flat alike, by the offer's title
RawValueOfTitle(title) ==
    IF PercentOfTitle(title) > 0 THEN PercentOfTitle(title)
    ELSE FlatOfTitle(title) \div 1000

\* offer is a first offer of the greatest raw value among offers
IsBestOf(offer, offers) ==
    \E i \in 1..Len(offers) :
        /\ offers[i] = offer
        /\ \A j \in 1..Len(offers) :
              RawValueOfTitle(offers[j].title) <= RawValueOfTitle(offer.title)
        /\ \A j \in 1..(i - 1) :
              RawValueOfTitle(offers[j].title) < RawValueOfTitle(offer.title)

\* the offers of a category (by title) in a combo of build_offer_combo
OfCategory(offers, category) ==
    SelectSeq(offers, LAMBDA o : o.title = category)

\* build_platform_combo uses one offer of each populated category, general
\* first: an offer of the greatest raw value of its category, and its
\* breakdown holds steps of the offers used only
BestOfferOfPlatform ==
    IsBuildPlatformCombo =>
        LET used == combo_ret.offers_used
            go == combo_call.go_found
            po == PoOffersAsked
        IN /\ Len(used) = (IF go # <<>> THEN 1 ELSE 0)
                          + (IF po # <<>> THEN 1 ELSE 0)
           /\ go # <<>> => IsBestOf(used[1], go)
           /\ po # <<>> => IsBestOf(used[Len(used)], po)
           /\ {combo_ret.breakdown[k].offer :
                  k \in 1..Len(combo_ret.breakdown)}
                = {used[k].title : k \in 1..Len(used)}
           /\ Len(combo_ret.breakdown) = Len(used)

\* C22 as stated: every combo the builders build holds exactly one offer of
\* each category of its pairing, an offer of the greatest extracted value
\* of its category, and applies no other offer to the price.
SingleBestOfferPerCategory ==
    /\ BestOfferOfPlatform
    /\ IsBuildOfferCombo =>
          \A k \in 1..Len(combo_ret.combos) :
              /\ Len(combo_ret.combos[k].offers) = 2
              /\ Len(OfCategory(combo_ret.combos[k].offers, "payment")) = 1
              /\ Len(combo_ret.combos[k].breakdown) <= 2

\* C22, amended: build_platform_combo builds its combo from exactly one
\* offer of each populated category, the first offer of the greatest
\* extracted value (raw magnitudes, percentage and flat alike), and applies
\* no other offer; build_offer_combo puts all payment offers and all offers
\* of the other category of the pairing into a combo, payment offers first,
\* and applies every one of them to the price.
BestOfferPerCategory ==
    /\ BestOfferOfPlatform
    /\ IsBuildOfferCombo =>
          \A k \in 1..Len(combo_ret.combos) :
              LET combo == combo_ret.combos[k]
              IN /\ combo.offers
                      = combo_call.payment_offers
                        \o (IF combo.type = "payment+general"
                            THEN combo_call.general_offers
                            ELSE combo_call.gift_coupons)
                 /\ Len(combo.breakdown) = Len(combo.offers)
                 /\ \A i \in 1..Len(combo.offers) :
                       combo.breakdown[i].title = combo.offers[i].title

BestOfferPerCategoryWitness ==
    /\ IsBuildPlatformCombo
    /\ combo_call.base_price = Rupees(7550)
    /\ Truthy(combo_call.bank)
    /\ [k \in 1..Len(combo_call.go_found) |-> combo_call.go_found[k].title]
          = <<"pct20", "flat500">>
    /\ [k \in 1..Len(combo_call.po_found) |-> combo_call.po_found[k].title]
          = <<"flat50", "pct10">>
    /\ [k \in 1..Len(combo_ret.offers_used) |-> combo_ret.offers_used[k].title]
          = <<"flat500", "flat50">>
    /\ combo_ret.final_price = Rupees(7000)


\* offers without the offers whose text holds no discount
WithoutMalformed(offers) ==
    SelectSeq(offers, LAMBDA o : o.title \notin {"malformed", "empty"})

\* C23: an offer whose text matches neither discount pattern, wherever it
\* stands in the list, contributes nothing: calculate_combo_price returns
\* the final price, total savings and steps it returns for the list without
\* such offers (and it returns: nothing is raised).
MalformedContributesNothing ==
    (combo_call.fn = "calculate_combo_price" /\ combo_ret # Unset) =>
        /\ combo_ret = calculate_combo_price(combo_call.base_price,
                                             WithoutMalformed(combo_call.offers))
        /\ \A k \in 1..Len(combo_ret.steps) :
              combo_ret.steps[k].offer \notin {"malformed", "empty"}

MalformedContributesNothingWitness ==
    /\ combo_call.fn = "calculate_combo_price"
    /\ combo_call.base_price = Rupees(1000)
    /\ [k \in 1..Len(combo_call.offers) |-> combo_call.offers[k].title]
          = <<"malformed", "flat50", "pct20">>
    /\ combo_ret # Unset
    /\ combo_ret.final_price = Rupees(750)
    /\ combo_ret.total_savings = Rupees(250)
    /\ [k \in 1..Len(combo_ret.steps) |-> combo_ret.steps[k].offer]
          = <<"pct20", "flat50">>


-----------------------------------------------------------------------------
(* Normalisation of a request's parameters: map_airlines and               *)
(* normalize_price applied once and again, and the request keys of two     *)
(* calls of get_flights.                                                    *)

\* entries of an include_airlines list as users write them
AirlineNames ==
    << <<"i", "n", "d", "i", "g", "o">>,
       <<"A", "i", "r", " ", "I", "n", "d", "i", "a">>,
       <<" ", "V", "i", "s", "t", "a", "r", "a">>,
       <<"A", "I">>,
       <<"6", "E">>,
       <<"e", "m", "i", "r", "a", "t", "e", "s">> >>

\* the lists of up to MaxAirlines entries, written with commas
AirlineLists == SeqsUpTo({AirlineNames[i] : i \in 1..Len(AirlineNames)}, MaxAirlines)
AirlineInputs ==
    {PyNone, PyStr(<<"a", "n", "y">>)} \cup {PyStr(StrJoin(l, ",")) : l \in AirlineLists \ {<<>>}}

PriceInputs ==
    { PyNone, PyStr(<<>>), PyStr(<<"₹", "5", "0", "0">>), PyStr(<<"5", "0", "0">>),
      PyStr(<<"5", ",", "0", "0", "0">>), PyStr(<<"a", "b", "c">>),
      PyStr(<<"R", "s", ".", " ", "7", ",", "5", "5", "0">>), PyStr(<<"0">>) }

\* the parameters of one call of get_flights
FlightQuery(include_airlines, max_price) ==
    [(CHOOSE q \in Queries : TRUE) EXCEPT !.include_airlines = include_airlines, !.max_price = max_price]

\* two lists naming the same entries: in another order, or with repeats
SameEntries(l1, l2) ==
    /\ l1 # l2
    /\ {l1[i] : i \in 1..Len(l1)} = {l2[i] : i \in 1..Len(l2)}

\* pairs of calls of get_flights: the second with the airline list of the
\* first reordered or repeated, or with the parameters of the first
\* already normalised
ReorderedPairs ==
    {[fn |-> "get_flights", relation |-> "reordered", first |-> FlightQuery(PyStr(StrJoin(l1, ",")), p), second |-> FlightQuery(PyStr(StrJoin(l2, ",")), p)] :
        l1 \in AirlineLists \ {<<>>}, l2 \in AirlineLists \ {<<>>}, p \in {PyNone, PyStr(<<"₹", "5", "0", "0">>)}}
NormalizedPairsOf(a, p) ==
    {[fn |-> "get_flights", relation |-> "normalized", first |-> FlightQuery(a, p), second |-> FlightQuery(r, normalize_price(p))] : r \in map_airlines(a)}
NormalizedPairs ==
    UNION {NormalizedPairsOf(a, p) : a \in AirlineInputs, p \in {PyNone, PyStr(<<"₹", "5", "0", "0">>)}}

\* pairs of calls that differ in the cabin class only
CabinClasses == {PyStr(<<"e", "c", "o", "n", "o", "m", "y">>), PyStr(<<"b", "u", "s", "i", "n", "e", "s", "s">>), PyNone}
CabinQuery(travel_class) ==
    [(CHOOSE q \in Queries : TRUE) EXCEPT !.travel_class = travel_class]
CabinPairs ==
    {[fn |-> f, relation |-> "cabin", first |-> CabinQuery(c1), second |-> CabinQuery(c2)] :
        f \in {"get_flights", "get_flight_with_aggregator"}, c1 \in CabinClasses, c2 \in CabinClasses}

NormCalls ==
    {[fn |-> "map_airlines", user_input |-> a, first |-> Unset] : a \in AirlineInputs}
    \cup {[fn |-> "normalize_price", value |-> p, first |-> Unset] : p \in PriceInputs}
    \cup {c \in ReorderedPairs : SameEntries(c.first.include_airlines.s, c.second.include_airlines.s)}
    \cup NormalizedPairs
    \cup {c \in CabinPairs : c.first # c.second}

InitNorm ==
    /\ CacheInit /\ CallersIdle /\ ClientIdle /\ RetryIdle /\ PipeInit /\ KeyIdle
    /\ combo_call \in NormCalls
    /\ combo_ret = Unset

\* user_input -> one of the strings map_airlines can return for it
MapAirlines ==
    /\ combo_call.fn = "map_airlines"
    /\ combo_ret = Unset
    /\ \E r \in map_airlines(combo_call.user_input) : Returns("map_airlines", r)

NormalizePrice ==
    /\ combo_call.fn = "normalize_price"
    /\ combo_ret = Unset
    /\ Returns("normalize_price", normalize_price(combo_call.value))

\* the function is called again on the value it returned
MapAirlinesAgain ==
    /\ combo_call.fn = "map_airlines"
    /\ combo_call.first = Unset
    /\ combo_ret # Unset
    /\ combo_call' = [fn |-> "map_airlines", user_input |-> combo_ret, first |-> combo_call.user_input]
    /\ combo_ret' = Unset
    /\ UNCHANGED <<cacheVars, clientVars, keyVars, retryVars, pipeVars,
                   callerVars>>

NormalizePriceAgain ==
    /\ combo_call.fn = "normalize_price"
    /\ combo_call.first = Unset
    /\ combo_ret # Unset
    /\ combo_call' = [fn |-> "normalize_price", value |-> combo_ret, first |-> combo_call.value]
    /\ combo_ret' = Unset
    /\ UNCHANGED <<cacheVars, clientVars, keyVars, retryVars, pipeVars,
                   callerVars>>

\* the arguments get_flights runs with when fn is called with q
ArgsOf(fn, q) ==
    IF fn = "get_flight_with_aggregator" THEN GetFlightsArgs(q) ELSE q

\* each of the two calls of get_flights builds its request_key
RequestKeys ==
    /\ combo_call.fn \in {"get_flights", "get_flight_with_aggregator"}
    /\ keyIn = <<>>
    /\ \E r1 \in map_airlines(combo_call.first.include_airlines), r2 \in map_airlines(combo_call.second.include_airlines) :
            keyIn' = <<RequestKey(ArgsOf(combo_call.fn, combo_call.first), r1), RequestKey(ArgsOf(combo_call.fn, combo_call.second), r2)>>
    /\ UNCHANGED <<keyOut, cacheOp, comboVars, cacheVars, retryVars, pipeVars,
                   callerVars>>

\* ... computes its cache key ...
RequestCacheKeys == keyIn # <<>> /\ KeyCompute

\* ... and the first call stores its response before the second looks its
\* own key up
FetchTwice == keyIn # <<>> /\ KeyPutThenGet

NextNorm ==
    \/ MapAirlines
    \/ NormalizePrice
    \/ MapAirlinesAgain
    \/ NormalizePriceAgain
    \/ RequestKeys
    \/ RequestCacheKeys
    \/ FetchTwice

SpecNorm == InitNorm /\ [][NextNorm]_vars

-----------------------------------------------------------------------------
(* Normalisation: idempotence and independence of the order of the list    *)

IsSecondCall(fn) ==
    combo_call.fn = fn /\ combo_call.first # Unset /\ combo_ret # Unset

\* normalize_price(normalize_price(x)) = normalize_price(x)
NormalizePriceIdempotent ==
    IsSecondCall("normalize_price") => combo_ret = combo_call.value

\* map_airlines(map_airlines(x)) = map_airlines(x)
MapAirlinesIdempotent ==
    IsSecondCall("map_airlines") => combo_ret = combo_call.user_input

IsCallPair(relation) ==
    combo_call.fn = "get_flights" /\ combo_call.relation = relation

\* the two calls of the pair address the same cache entry
SameCacheEntry ==
    /\ keyIn # <<>> => keyIn[1] = keyIn[2]
    /\ keyOut # <<>> => keyOut[1] = keyOut[2]
    /\ cacheOp.op = "get" => cacheOp.ok

\* C24: applying map_airlines or normalize_price to a value it returned
\* gives that value back, and a call of get_flights with parameters that
\* are already normalised addresses the cache entry of the call with the
\* raw parameters.
NormalizationIdempotent ==
    /\ NormalizePriceIdempotent
    /\ MapAirlinesIdempotent
    /\ IsCallPair("normalized") => SameCacheEntry

\* C25: two calls of get_flights whose airline lists name the same
\* airlines in another order or with repeats build the same request key
\* and the same cache key, and the second call finds the entry the first
\* stored.
NormalizationOrderIndependent ==
    IsCallPair("reordered") => SameCacheEntry

-----------------------------------------------------------------------------
(* Separation of the keys of different requests                            *)

DifferentRequests == keyIn # <<>> /\ MapOf(keyIn[1]) # MapOf(keyIn[2])

IsBookingKey(d) == Len(d) = 1 /\ d[1][1] = "booking_token"

\* C26: two request-parameter maps that differ in a key or in a value get
\* different cache keys, and a get under one of them returns nothing of
\* what was put under the other.
KeySeparation ==
    DifferentRequests =>
        /\ keyOut # <<>> => keyOut[1] # keyOut[2]
        /\ cacheOp.op = "get" => cacheOp.ret = PyNone /\ ~cacheOp.ok

\* a flight-search response was put and the get under a booking-token key
\* missed
KeySeparationWitness ==
    /\ DifferentRequests
    /\ keyOut # <<>>
    /\ Len(keyIn[1]) = 7
    /\ IsBookingKey(keyIn[2])
    /\ cacheOp.op = "get"
    /\ store # {}
    /\ cacheOp.ret = PyNone

-----------------------------------------------------------------------------
(* The cache store under concurrent callers. Each function of mongoDB.py   *)
(* issues its pymongo commands one after the other, and the commands of    *)
(* different callers interleave. api_cache has no unique index on          *)
(* cache_key (get_collection creates none), so an upsert whose filter      *)
(* matched nothing inserts its document whatever was inserted since the    *)
(* match; a replacement of a matched document is one atomic step.          *)

CanCall(c) == callers[c].pc \in {"idle", "done"} /\ CallsMade(c) < MaxCalls

Called(c, record) == callers' = [callers EXCEPT ![c] = record @@ [made |-> CallsMade(c) + 1]]

\* save_api_cache_result(request_key, api_response_data) is entered: the
\* document is built with the time of the call
CallPut(c, entry) ==
    /\ CanCall(c)
    /\ Called(c, [pc |-> "match", op |-> "put", entries |-> <<entry>>, at |-> now])
    /\ UNCHANGED <<cacheVars, clientVars, keyVars, retryVars, pipeVars, comboVars, handleVars>>

\* batch_save_cache_results(cache_entries) with a non-empty batch
CallBatchPut(c, cache_entries) ==
    /\ CanCall(c)
    /\ cache_entries # <<>>
    /\ Called(c, [pc |-> "match", op |-> "batch", entries |-> cache_entries, at |-> now])
    /\ UNCHANGED <<cacheVars, clientVars, keyVars, retryVars, pipeVars, comboVars, handleVars>>

\* get_api_cache_result(request_key) is entered
CallGet(c, request_key) ==
    /\ CanCall(c)
    /\ Called(c, [pc |-> "find", op |-> "get", params |-> request_key, ret |-> Unset])
    /\ UNCHANGED <<cacheVars, clientVars, keyVars, retryVars, pipeVars, comboVars, handleVars>>

UpsertDocument(c) ==
    CacheDocument(Head(callers[c].entries)[1], Head(callers[c].entries)[2], callers[c].at)

\* the caller's current upsert is applied; the next one of its batch follows
UpsertApplied(c) ==
    /\ putLog' = LogPut(putLog, Head(callers[c].entries)[1], Head(callers[c].entries)[2], callers[c].at)
    /\ callers' = [callers EXCEPT ![c].entries = Tail(@),
                                  ![c].pc = IF Tail(callers[c].entries) = <<>> THEN "done" ELSE "match"]

\* the server evaluates the filter of a ReplaceOne upsert: a matched
\* document is replaced at once, otherwise an insert follows
UpsertMatch(c) ==
    /\ callers[c].pc = "match"
    /\ IF Matching(store, UpsertDocument(c).cache_key) # {}
       THEN /\ store' = replace_one_upsert(store, nextId, UpsertDocument(c)).coll
            /\ UpsertApplied(c)
            /\ UNCHANGED nextId
       ELSE /\ callers' = [callers EXCEPT ![c].pc = "insert"]
            /\ UNCHANGED <<store, nextId, putLog>>
    /\ UNCHANGED <<dbUp, now, ticks, clientVars, keyVars, retryVars, pipeVars, comboVars, handleVars>>

\* the insert of an upsert that matched nothing
UpsertInsert(c) ==
    /\ callers[c].pc = "insert"
    /\ store' = store \cup {StoredAs(nextId, UpsertDocument(c))}
    /\ nextId' = nextId + 1
    /\ UpsertApplied(c)
    /\ UNCHANGED <<dbUp, now, ticks, clientVars, keyVars, retryVars, pipeVars, comboVars, handleVars>>

\* coll.find_one and the TTL test of get_api_cache_result
GetFind(c) ==
    /\ callers[c].pc = "find"
    /\ LET cache_key == generate_cache_key(callers[c].params)
       IN IF Matching(store, cache_key) = {}
          THEN callers' = [callers EXCEPT ![c].pc = "done", ![c].ret = PyNone]
          ELSE IF IsFresh(find_one(store, cache_key).cached_at, now)
          THEN callers' = [callers EXCEPT ![c].pc = "done", ![c].ret = find_one(store, cache_key).data]
          ELSE callers' = [callers EXCEPT ![c] = @ @@ [found |-> find_one(store, cache_key)._id], ![c].pc = "delete", ![c].ret = PyNone]
    /\ UNCHANGED <<cacheVars, clientVars, keyVars, retryVars, pipeVars, comboVars, handleVars>>

\* coll.delete_one({"_id": ...}) of the stale document that was found
GetDelete(c) ==
    /\ callers[c].pc = "delete"
    /\ store' = delete_one(store, callers[c].found)
    /\ callers' = [callers EXCEPT ![c].pc = "done"]
    /\ UNCHANGED <<nextId, dbUp, now, ticks, putLog, clientVars, keyVars, retryVars, pipeVars, comboVars, handleVars>>

UpsertTick ==
    \E step \in TickSteps :
        Tick(step) /\ UNCHANGED <<clientVars, keyVars, retryVars, pipeVars, comboVars, callerVars>>

InitUpsert ==
    /\ CacheInit /\ ClientIdle /\ KeyIdle /\ RetryIdle /\ PipeInit /\ ComboIdle
    /\ CallersIdle

NextUpsert ==
    \/ \E c \in Callers, entry \in ClientEntries : CallPut(c, entry)
    \/ \E c \in Callers, cache_entries \in ClientBatches : CallBatchPut(c, cache_entries)
    \/ \E c \in Callers, request_key \in ClientParams : CallGet(c, request_key)
    \/ \E c \in Callers : UpsertMatch(c)
    \/ \E c \in Callers : UpsertInsert(c)
    \/ \E c \in Callers : GetFind(c)
    \/ \E c \in Callers : GetDelete(c)
    \/ UpsertTick

SpecUpsert == InitUpsert /\ [][NextUpsert]_vars

\* the store holds at most one document per cache key
OneEntryPerKey ==
    \A d1 \in store, d2 \in store : d1.cache_key = d2.cache_key => d1 = d2

\* caller c's get looks the store up in this step
GetLooksUp(c) == callers[c].pc = "find" /\ callers'[c].pc # "find"

\* a get that looks the store up within the TTL of the latest write of its
\* key gets the payload of that write
GetReturnsLatest ==
    \A c \in Callers :
        GetLooksUp(c) =>
            \A e \in putLog :
                (e.key = generate_cache_key(callers[c].params) /\ IsFresh(e.at, now))
                    => callers'[c].ret = e.data

\* C27: under any interleaving of the puts, batch puts and gets of
\* concurrent callers the store holds at most one entry per cache key (a
\* write of a stored key replaces its entry), and a get within the TTL of
\* the latest write of its key returns the payload of that write.
UpsertInvariant == [][OneEntryPerKey' /\ GetReturnsLatest]_vars

-----------------------------------------------------------------------------
(* Concurrency inside one call of an enrich function                       *)

\* the cache checks of the call that are running
RunningChecks ==
    IF pc = "check" THEN {i \in 1..Len(tasks) : ~tasks[i].done} ELSE {}

KeyOfToken(token) == generate_cache_key(BookingKey(token))

ChecksOnDistinctKeys ==
    \A i \in RunningChecks, j \in RunningChecks :
        i # j => KeyOfToken(tasks[i].token) # KeyOfToken(tasks[j].token)

BatchOnDistinctKeys ==
    \A i \in 1..Len(cache_batch), j \in 1..Len(cache_batch) :
        i # j => generate_cache_key(cache_batch[i][1]) # generate_cache_key(cache_batch[j][1])

\* C28: within one call of an enrich function, whatever the list of
\* results (two results carrying one token included), no two cache checks
\* that run at the same time and no two entries of the unordered batch
\* write have the same cache key.
NoSameKeyConcurrency == ChecksOnDistinctKeys /\ BatchOnDistinctKeys

-----------------------------------------------------------------------------
(* A cache check that raises                                               *)

CheckRaised(i) == tasks[i].result.kind = "exception"
CheckHit(i) == ~IsCacheMiss(tasks[i].result)

\* the detail calls launched for flight i of the filtered list
FetchesOf(i) == {j \in 1..Len(fetch_tasks) : fetch_tasks[j].flight = tasks[i].flight}

InOutput(booking_data) ==
    \E k \in 1..Len(result.items) : result.items[k] = EnrichedFlight(booking_data)

AfterChecks == is_cached /\ pc \in {"fetch", "returned"}

\* C29 as stated: a token whose cache check raised gets no detail call and
\* no output entry; the output holds the entries of the sibling tokens
\* only.
CheckFailureDropsToken ==
    AfterChecks =>
        /\ \A i \in 1..Len(tasks) : CheckRaised(i) => FetchesOf(i) = {}
        /\ pc = "returned" =>
              Len(result.items) <= Cardinality({i \in 1..Len(tasks) : ~CheckRaised(i)})

\* C29 amended: a cache check that raises is handled as a miss. The token
\* gets one upstream detail call like the tokens whose check returned
\* None, and it is in the output and in the batch iff that call gave a
\* usable result; the sibling tokens are processed as they are without
\* the failure (hits assembled from the cache, misses fetched), and the
\* batch of the fetched entries is written once.
CheckFailureIsMiss ==
    AfterChecks =>
        /\ \A i \in 1..Len(tasks) :
              IF CheckHit(i)
              THEN FetchesOf(i) = {} /\ (pc = "returned" => InOutput(tasks[i].result))
              ELSE /\ Cardinality(FetchesOf(i)) = 1
                   /\ \A j \in FetchesOf(i) :
                         /\ fetch_tasks[j].token = tasks[i].token
                         /\ (pc = "returned" /\ ~IsFailedFetch(fetch_tasks[j].result)) =>
                               /\ InOutput(fetch_tasks[j].result)
                               /\ \E k \in 1..Len(cache_batch) :
                                     cache_batch[k] = <<BookingKey(tasks[i].token), fetch_tasks[j].result>>
        /\ pc = "returned" =>
              /\ Len(result.items) = Cardinality({i \in 1..Len(tasks) : CheckHit(i)}) + Len(cache_batch)
              /\ nBatch = IF cache_batch = <<>> THEN 0 ELSE 1

\* the first check raised and the second hit: the first token was fetched
\* and both are in the output, the fetched one in the batch
CheckFailureIsMissWitness ==
    /\ is_cached
    /\ pc = "returned"
    /\ Len(tasks) = 2
    /\ CheckRaised(1)
    /\ CheckHit(2)
    /\ Len(result.items) = 2
    /\ Len(cache_batch) = 1
    /\ nBatch = 1

-----------------------------------------------------------------------------
(* What the aggregator raises                                              *)

AggregatorEnded == pc \in {"returned", "recovered", "raised"}

\* the token-carrying flights of the response that pass the budget filter
FilteredOf(flights) ==
    SelectSeq(flights, LAMBDA f : is_flight_under_budget(f, query.max_price))

\* C30: get_flight_with_aggregator raises iff every one of the
\* GF_MAX_RETRIES attempts of the primary search failed; after an empty
\* search result, an empty budget-filtered list, an exception inside the
\* enrichment or a failed batch write it has returned a list (an empty one
\* in the first three cases) and raised nothing.
OnlySearchExhaustionRaises ==
    /\ pc = "raised" <=> Len(excs) = GF_MAX_RETRIES
    /\ pc = "raised" => aggExc # NoException /\ result = Unset
    /\ pc \in {"returned", "recovered"} =>
          /\ aggExc = NoException
          /\ result.kind = "list"
          /\ (~Truthy(all_flights) \/ FilteredOf(all_flights.items) = <<>>) => result = PyList(<<>>)
          /\ pc = "recovered" => result = PyList(<<>>)
    /\ AggregatorEnded \/ (aggExc = NoException /\ result = Unset)

\* the enrichment raised after a detail call had been made, and the
\* aggregator returned the empty list
OnlySearchExhaustionRaisesWitness ==
    /\ pc = "recovered"
    /\ nDetail >= 1
    /\ fetch_tasks # <<>>
    /\ aggExc = NoException
    /\ result = PyList(<<>>)


\* the titles of the offers of a positive value, percentages (in input
\* order) before flat amounts
FlatTitles(offers) ==
    SelectSeq([k \in 1..Len(offers) |-> offers[k].title],
              LAMBDA t : FlatOfTitle(t) > 0)
AppliedTitles(offers) == PercentTitles(offers) \o FlatTitles(offers)

\* the running price before step k of steps
PriceBeforeStep(base_price, steps, k) ==
    IF k = 1 THEN base_price ELSE steps[k - 1].price_after

\* C31 as stated: calculate_combo_price of rag_platform_combo_retriever.py
\* records exactly one step per offer of a positive extracted value and
\* none for an offer of value 0, the percentage steps in input order before
\* the flat steps; the price each step records is the running price right
\* after that step (the price the step before left, less this step's
\* discount), so that the last step records the price after all discounts.
StepRecording ==
    (combo_call.fn = "calculate_combo_price" /\ combo_ret # Unset) =>
        /\ [k \in 1..Len(combo_ret.steps) |-> combo_ret.steps[k].offer]
              = AppliedTitles(combo_call.offers)
        /\ \A k \in 1..Len(combo_ret.steps) :
              /\ combo_ret.steps[k].type
                    = (IF k <= Len(PercentTitles(combo_call.offers))
                       THEN "percentage" ELSE "flat")
              /\ combo_ret.steps[k].price_after
                    = PriceBeforeStep(combo_call.base_price,
                                      combo_ret.steps, k)
                      - combo_ret.steps[k].discount_amount
        /\ combo_ret.steps # <<>> =>
              combo_ret.steps[Len(combo_ret.steps)].price_after
                  = SequencedPrice(combo_call.base_price, combo_call.offers)


\* C31 amended: one step per offer of a positive extracted value and none
\* for an offer of value 0, percentage steps in input order before flat
\* steps. A percentage step records the running price right after it. The
\* flat discounts are subtracted together, and every flat step records the
\* price left by the whole flat sum, also a flat step that another flat
\* step follows. The last step records the price after all discounts,
\* before it is held at 0 for the final price.
StepRecordingFlatTogether ==
    (combo_call.fn = "calculate_combo_price" /\ combo_ret # Unset) =>
        /\ [k \in 1..Len(combo_ret.steps) |-> combo_ret.steps[k].offer]
              = AppliedTitles(combo_call.offers)
        /\ \A k \in 1..Len(combo_ret.steps) :
              IF k <= Len(PercentTitles(combo_call.offers))
              THEN /\ combo_ret.steps[k].type = "percentage"
                   /\ combo_ret.steps[k].price_after
                         = PriceBeforeStep(combo_call.base_price,
                                           combo_ret.steps, k)
                           - combo_ret.steps[k].discount_amount
              ELSE /\ combo_ret.steps[k].type = "flat"
                   /\ combo_ret.steps[k].discount_amount
                         = FlatOfTitle(combo_ret.steps[k].offer)
                   /\ combo_ret.steps[k].price_after
                         = SequencedPrice(combo_call.base_price,
                                          combo_call.offers)
        /\ combo_ret.steps # <<>> =>
              /\ combo_ret.steps[Len(combo_ret.steps)].price_after
                    = SequencedPrice(combo_call.base_price, combo_call.offers)
              /\ combo_ret.final_price
                    = AtLeastZero(combo_ret.steps[Len(combo_ret.steps)].price_after)

\* (1000, [20%, 50 flat, 500 flat]): steps at 800, 250 and 250
StepRecordingFlatTogetherWitness ==
    /\ combo_call.fn = "calculate_combo_price"
    /\ combo_ret # Unset
    /\ combo_call.base_price = Rupees(1000)
    /\ Len(combo_ret.steps) = 3
    /\ combo_ret.steps[1].type = "percentage"
    /\ combo_ret.steps[1].price_after = Rupees(800)
    /\ combo_ret.steps[2].offer = "flat50"
    /\ combo_ret.steps[2].price_after = Rupees(250)
    /\ combo_ret.steps[3].offer = "flat500"
    /\ combo_ret.steps[3].price_after = Rupees(250)

-----------------------------------------------------------------------------
(* The cabin class in the request key                                      *)

IsCabinPair(fn) == combo_call.fn = fn /\ combo_call.relation = "cabin"

\* C32: the cabin class given to get_flight_with_aggregator is part of the
\* request key get_flights builds, so two calls of the aggregator that
\* differ in the cabin class only build different request keys and cache
\* keys, and the second does not find the entry the first stored.
CabinClassInKey ==
    IsCabinPair("get_flight_with_aggregator") =>
        /\ keyIn # <<>> =>
              /\ DictGet(keyIn[1], "travel_class", Unset) = combo_call.first.travel_class
              /\ DictGet(keyIn[2], "travel_class", Unset) = combo_call.second.travel_class
        /\ keyOut # <<>> => keyOut[1] # keyOut[2]
        /\ cacheOp.op = "get" => cacheOp.ret = PyNone /\ ~cacheOp.ok


-----------------------------------------------------------------------------
(* The count a batch write reports                                         *)

\* C33: batch_save_cache_results returns the number of entries it saved,
\* also for a batch of which the server rejected some entries and wrote the
\* others.
BatchReportsSaved ==
    (cacheOp.op = "batch" /\ cacheOp.ok) =>
        cacheOp.count
            = Cardinality({i \in 1..Len(cacheOp.params) : ~cacheOp.bad[i]})


-----------------------------------------------------------------------------
(* The cleanup of a stale entry while the entry is rewritten                *)

\* caller c's get deletes the stale document it found in this step
CleansUp(c) == callers[c].pc = "delete" /\ callers'[c].pc = "done"

\* C34: when a get that found a stale entry runs at the same time as a put
\* or a batch put of the same key, the delete of the get's cleanup removes
\* no entry that was written since and is within the TTL: the store still
\* holds every fresh entry after the cleanup, so that a get that follows
\* finds it.
StaleCleanupKeepsFresh ==
    [][\A c \in Callers :
          CleansUp(c) =>
              \A doc \in store : IsFresh(doc.cached_at, now) => doc \in store']_vars


-----------------------------------------------------------------------------
(* A later call finds what an enrich call wrote                            *)

\* the latest writes of token's booking data that are within the TTL
FreshWrites(token) ==
    {e \in putLog : e.key = KeyOfToken(token) /\ IsFresh(e.at, now)}

\* the running call has not written booking data for the token of task i
NotRewritten(i) ==
    \A k \in 1..Len(cache_batch) : cache_batch[k][1] # BookingKey(tasks[i].token)

\* C35: after a call of an enrich function (with or without cache checks)
\* wrote its batch, a later call of enrich_flights_with_cache_async within
\* the TTL, whose cache checks get the store's answer, makes no upstream
\* detail call for a token of which the batch wrote booking data, and its
\* output holds for that token the enriched entry built from that booking
\* data, the entry the earlier call returned for it.
EnrichmentWarmsCache ==
    AfterChecks =>
        \A i \in 1..Len(tasks) :
            \A e \in FreshWrites(tasks[i].token) :
                (tasks[i].reached /\ NotRewritten(i)) =>
                    /\ tasks[i].result = e.data
                    /\ FetchesOf(i) = {}
                    /\ pc = "returned" => InOutput(e.data)

\* the second call, made within the TTL but not at once, checked the cache
\* for two tokens, got both from the store and returned their enriched
\* entries without an upstream detail call
EnrichmentWarmsCacheWitness ==
    /\ requests = 2
    /\ now = CACHE_TTL_MINUTES - 1
    /\ is_cached
    /\ pc = "returned"
    /\ Len(tasks) = 2
    /\ tasks[1].token # tasks[2].token
    /\ \A i \in 1..Len(tasks) : tasks[i].reached /\ FreshWrites(tasks[i].token) # {}
    /\ nDetail = 0
    /\ Len(result.items) = 2


-----------------------------------------------------------------------------
(* The upstream search calls of one call of get_flights                     *)

\* a call of get_flights through the wrapper is running or has just ended
FetchRunning == pc \in {"get_flights", "search", "got_flights", "raised"}

\* at most max_retries invocations and upstream search calls, at most one
\* search per invocation, at most one cache write, made by the invocation
\* that returns
FetchBounds ==
    FetchRunning =>
        /\ calls <= max_retries
        /\ nSearch <= max_retries
        /\ nSearch = calls + (IF pc = "search" THEN 1 ELSE 0)
              \/ (pc = "got_flights" /\ nSearch = calls - 1)
        /\ nSave <= 1
        /\ nSave = 1 => pc = "got_flights"

\* an upstream search call is made only by an invocation of get_flights
\* that has looked the cache up (a retry starts get_flights over), and an
\* invocation whose lookup hits returns without one
SearchAfterLookup ==
    /\ (pc' = "search" /\ pc # "search") =>
          /\ pc = "get_flights" /\ wpc = "call"
          /\ req_key' = RequestKey(GetFlightsArgs(query), DictGet(req_key', "airlines", Unset))
    /\ (pc = "get_flights" /\ pc' = "got_flights") =>
          /\ nSearch' = nSearch /\ nSave' = nSave
          /\ wret'.items[2] = TRUE

\* C36: retry_with_backoff wraps the whole of get_flights, so that every
\* attempt looks the cache up again: one call makes at most max_retries
\* upstream search calls, none in an attempt whose lookup hits, and at most
\* one cache write, and it ends after at most max_retries attempts.
BoundedUpstreamUse ==
    /\ []FetchBounds
    /\ [][SearchAfterLookup]_vars
    /\ (pc = "get_flights") ~> (pc \in {"got_flights", "raised"})

\* an attempt that followed failed upstream searches found the entry in the
\* cache and returned it without a further search
BoundedUpstreamUseWitness ==
    /\ pc = "got_flights"
    /\ wret.items[2] = TRUE
    /\ nSearch >= 2
    /\ calls = nSearch + 1


-----------------------------------------------------------------------------
(* The savings a price calculation reports                                 *)

\* C37: both versions of calculate_combo_price return total_savings =
\* original_price - final_price, so that the savings lie between 0 and the
\* original price, also when the discounts exceed the price and the final
\* price is held at 0.
SavingsAccounting ==
    IsComboPriceCall =>
        /\ combo_ret.original_price = combo_call.base_price
        /\ combo_ret.total_savings
              = combo_ret.original_price - combo_ret.final_price
        /\ combo_ret.total_savings >= 0
        /\ combo_ret.total_savings <= combo_ret.original_price


-----------------------------------------------------------------------------
(* The pipeline and the clients of the store while the store comes and     *)
(* goes: every store operation reaches the store exactly when dbUp          *)

\* the calls of the aggregator are over and the store cannot be reached:
\* the state in which the clients of the store call it here
OutageAfterCalls ==
    /\ requests = MaxRequests
    /\ pc \in {"returned", "recovered", "raised"}
    /\ ~dbUp

DownGetFlights == GetFlightsAttempt(dbUp)
DownSearchOk ==
    \E outbound_flights \in SearchResponses : SearchReturns(outbound_flights, dbUp)
DownCacheCheck ==
    \E i \in 1..Len(tasks) : CacheCheckSettles(i, dbUp, NoException)
DownDetail ==
    \E j \in 1..Len(fetch_tasks) :
        \E booking_data \in DetailOutcomes(fetch_tasks[j].token) :
            \E bad \in UNION {BadSets(n) : n \in 0..Len(fetch_tasks)} :
                DetailSettles(j, booking_data, dbUp, bad)
DownClientPut == OutageAfterCalls /\ ClientPut
DownClientGet == OutageAfterCalls /\ ClientGet
DownClientBatchPut == OutageAfterCalls /\ ClientBatchPut

NextDown ==
    \/ DbFails
    \/ DbRecovers
    \/ Call
    \/ GetFlightsEnter
    \/ DownGetFlights
    \/ AggregatorResume
    \/ DownSearchOk
    \/ SearchFails
    \/ DownCacheCheck
    \/ DownDetail
    \/ DownClientPut
    \/ DownClientGet
    \/ DownClientBatchPut

SpecDown == Init /\ [][NextDown]_vars

\* a client's get, put or batch put made while the store cannot be reached
ClientDegrades ==
    (cacheOp' # cacheOp) =>
        /\ cacheOp'.op = "get" => cacheOp'.ret = PyNone /\ ~cacheOp'.ok
        /\ cacheOp'.op = "put" => ~cacheOp'.ok
        /\ cacheOp'.op = "batch" => cacheOp'.count = 0

\* get_flights while the store cannot be reached: the lookup misses and the
\* upstream search is called; its results are returned with False
FetchDegrades ==
    /\ (pc = "get_flights" /\ wpc = "call") =>
          pc' = "search" /\ nSearch' = nSearch + 1
    /\ (pc = "search" /\ pc' = "got_flights") =>
          /\ wret'.kind = "tuple"
          /\ wret'.items[1].items \in SearchResponses
          /\ wret'.items[2] = FALSE

\* the cache-checked enrich function while the store cannot be reached:
\* every check is a miss and every token gets its upstream detail call
EnrichDegrades ==
    pc = "check" =>
        /\ \A i \in 1..Len(tasks) :
              (~tasks[i].done /\ tasks'[i].done) => tasks'[i].result = PyNone
        /\ pc' = "fetch" =>
              \A i \in 1..Len(tasks) :
                  tasks'[i].result = PyNone =>
                      \E j \in 1..Len(fetch_tasks') :
                          /\ fetch_tasks'[j].flight = tasks[i].flight
                          /\ fetch_tasks'[j].token = tasks[i].token

\* nothing is raised because of the store: an exception leaves a call only
\* when the upstream search has failed max_retries times
NothingRaised ==
    /\ (aggExc' # aggExc /\ aggExc' # NoException) =>
          (pc = "search" /\ aggExc' \in {"e1", "e2"} /\ calls' = max_retries)
    /\ pc' = "raised" => (pc = "search" \/ pc = "raised")

\* C38: while the store cannot be reached every get is a miss, every put
\* reports failure and every batch put reports 0, none of them changing the
\* store or raising; get_flights calls the upstream search and returns
\* (results, False); the cache-checked enrich function treats every token
\* as a miss; and no operation raises because of the store.
StoreUnavailableDegrades ==
    [][(~dbUp /\ ~dbUp') =>
          /\ store' = store /\ putLog' = putLog
          /\ ClientDegrades
          /\ FetchDegrades
          /\ EnrichDegrades
          /\ NothingRaised]_vars

\* a call that found its flights in the cache, lost the store, missed
\* every check, fetched every token upstream and returned the entries
StoreUnavailableDegradesWitness ==
    /\ ~dbUp
    /\ is_cached
    /\ pc = "returned"
    /\ Len(tasks) = 2
    /\ \A i \in 1..Len(tasks) : tasks[i].done /\ ~tasks[i].reached
    /\ Len(fetch_tasks) = 2
    /\ Len(result.items) = 2
    /\ nBatch = 1
    /\ \A i \in 1..Len(tasks) : FreshWrites(tasks[i].token) # {}


-----------------------------------------------------------------------------
(* What the wrapper returns                                                *)

\* C39: whatever max_retries is (0 and negative values included), the
\* wrapper returns only after an invocation of the wrapped function that
\* succeeded, and it returns what that invocation returned.
ReturnsOnlyAfterSuccess ==
    wpc = "returned" =>
        /\ calls >= 1
        /\ fret # Unset
        /\ wret = fret


-----------------------------------------------------------------------------
(* get_mongo_client under concurrent callers. The test of the global       *)
(* before the lock, the body under the lock up to the assignment of the    *)
(* global, and the ping are steps of their own: between them another       *)
(* caller runs.                                                            *)

\* the client object MongoClient(uri, ...) returns
MongoClient(id) == [kind |-> "client", id |-> id]

ReturnsClient(c, value) ==
    callers' = [callers EXCEPT ![c].pc = "done", ![c].ret = value]

\* get_mongo_client() is entered
CallGetClient(c) ==
    /\ CanCall(c)
    /\ Called(c, [pc |-> "fast", op |-> "get_mongo_client", ret |-> Unset])
    /\ UNCHANGED <<cacheVars, clientVars, keyVars, retryVars, pipeVars, comboVars, handleVars>>

\* `if _mongo_client is not None: return _mongo_client`, before the lock
FastPath(c) ==
    /\ callers[c].pc = "fast"
    /\ IF mongo_client # PyNone
       THEN ReturnsClient(c, mongo_client)
       ELSE callers' = [callers EXCEPT ![c].pc = "lock"]
    /\ UNCHANGED <<cacheVars, clientVars, keyVars, retryVars, pipeVars, comboVars, handleVars>>

\* `with _client_lock:`, the second test of the global and the test of the
\* URI (uri: MONGO_DB_URI is set); the lock is released by every return
UnderLock(c, uri) ==
    /\ callers[c].pc = "lock"
    /\ client_lock = "free"
    /\ IF mongo_client # PyNone
       THEN ReturnsClient(c, mongo_client) /\ UNCHANGED client_lock
       ELSE IF ~uri
       THEN ReturnsClient(c, PyNone) /\ UNCHANGED client_lock
       ELSE /\ callers' = [callers EXCEPT ![c].pc = "create"]
            /\ client_lock' = c
    /\ UNCHANGED <<mongo_client, clients>>
    /\ UNCHANGED <<cacheVars, clientVars, keyVars, retryVars, pipeVars, comboVars>>

\* `_mongo_client = MongoClient(uri, ...)`: the constructor raises (the
\* except clause returns None) or its result is assigned to the global
CreateClient(c, raises) ==
    /\ callers[c].pc = "create"
    /\ IF raises
       THEN /\ ReturnsClient(c, PyNone)
            /\ client_lock' = "free"
            /\ UNCHANGED <<mongo_client, clients>>
       ELSE /\ mongo_client' = MongoClient(Len(clients) + 1)
            /\ clients' = Append(clients, FALSE)
            /\ callers' = [callers EXCEPT ![c].pc = "ping"]
            /\ UNCHANGED client_lock
    /\ UNCHANGED <<cacheVars, clientVars, keyVars, retryVars, pipeVars, comboVars>>

\* `_mongo_client.admin.command("ping")`: it answers and the client is
\* returned, or it raises and the except clause returns None
PingClient(c, answers) ==
    /\ callers[c].pc = "ping"
    /\ clients' = [clients EXCEPT ![mongo_client.id] = answers]
    /\ ReturnsClient(c, IF answers THEN mongo_client ELSE PyNone)
    /\ client_lock' = "free"
    /\ UNCHANGED mongo_client
    /\ UNCHANGED <<cacheVars, clientVars, keyVars, retryVars, pipeVars, comboVars>>

InitClient ==
    CacheInit /\ CallersIdle /\ ClientIdle /\ KeyIdle /\ RetryIdle /\ PipeInit /\ ComboIdle

NextClient ==
    \/ \E c \in Callers : CallGetClient(c)
    \/ \E c \in Callers : FastPath(c)
    \/ \E c \in Callers, uri \in BOOLEAN : UnderLock(c, uri)
    \/ \E c \in Callers, raises \in BOOLEAN : CreateClient(c, raises)
    \/ \E c \in Callers, answers \in BOOLEAN : PingClient(c, answers)

SpecClient == InitClient /\ [][NextClient]_vars

\* a caller is between the assignment of the global and the end of its ping
Initialising == \E c \in Callers : callers[c].pc = "ping"

\* C40: when the connectivity check of get_mongo_client fails, the call
\* returns None and the shared handle is left unset, so that every later
\* call attempts the initialisation again under the lock and no call
\* returns a client whose check failed; under concurrent callers at most
\* one client is ever installed.
FailedInitLeavesNoClient ==
    /\ Len(clients) <= 1
    /\ ~Initialising =>
          /\ mongo_client # PyNone => clients[mongo_client.id]
          /\ \A c \in Callers :
                (callers[c].pc = "done" /\ callers[c].ret # PyNone) =>
                    clients[callers[c].ret.id]

=============================================================================
